---- MODULE Spec2Model ----
(***************************************************************************)
(* Model of the dual-axis servo tracking controller of                     *)
(* MaixPy_Vision_Tracking: the K230 coordinate frame synchronizer          *)
(* (UART_0_rx_DataFrame), the PID controller and the servo angle/PWM       *)
(* mapper (servo.c).                                                       *)
(*                                                                         *)
(* Numbers.  Bytes are 0..255, coordinates are uint16_t (0..65535).        *)
(* The float quantities of servo.c are modelled in exact fixed point:      *)
(* one degree (one unit of PID output) is SCALE model units, gains are     *)
(* given in hundredths.  Float rounding error and NaN/Inf are outside the  *)
(* model.                                                                  *)
(***************************************************************************)
EXTENDS Integers, Sequences, FiniteSets, TLC

VARIABLES
    \* ---- K230_UART: frame synchronizer state (part_004 lines 3-22, K230_UART.h 14-15)
    rx_order,       \* volatile uint8_t rx_order[9]
    pt,             \* volatile uint8_t pt
    last_data,      \* volatile uint8_t last_data
    target_x,       \* uint16_t target_x
    target_y,       \* uint16_t target_y
    \* ---- observation of the last UART_0_rx_DataFrame call
    last_step,      \* [branch, commit]: branch taken and whether target_x/y were written
    rx_data,        \* volatile uint8_t rx_data: the byte read from the receiver
    fobs,           \* [since, terms, commits]: bytes received since the last sync
                    \* step (-1: no sync step yet), terminator steps and writes of
                    \* target_x/y since the last sync step (or since start)
    \* ---- the byte source (the K230 peer and the serial line)
    phase,          \* "prefix" | "frame" | "done"
    nprefix,        \* number of free bytes received before the frame
    frame,          \* the 9 bytes of the frame in flight (<<>> when none)
    pos,            \* index in frame of the next byte to deliver
    wrote,          \* a write to target_x/target_y happened while the frame was delivered
    prev_target,    \* <<target_x, target_y>> when the frame started
    \* ---- main context reading the shared coordinate
    mread,          \* set of fields the main context has read for this tick
    snap_x, snap_y, \* the values it read
    gen_x, gen_y,   \* number of commits that had happened at each read
    commit_log,     \* coordinates (as sent) of the frames committed so far
    nsent,          \* frames sent by the peer so far
    \* ---- servo.c
    Servo_Target1, Servo_Target2,   \* uint16_t globals
    cc0, cc1,       \* TIMA1 capture/compare values (PWM duty), channel 0 and 1
    hw_log,         \* events of the last servo operation, in program order
    pid_x, pid_y,   \* PID_Controller instances
    \* ---- K230_Init / K230_cmd: the blocking command/response exchange
    irq_en,         \* NVIC enable of the UART_0 receive interrupt
    xpc,            \* where the main context stands in K230_Init / K230_cmd
    xtime,          \* K230_Init: uint8_t time
    xret,           \* value returned by the last K230_Init call (-1: none yet)
    xtemp, xlast, xlastlast,   \* K230_cmd: temp, last_temp, last_last_temp
    xi,             \* K230_cmd: uint8_t i
    xdata,          \* K230_cmd: uint8_t data[128], the cells written so far
    xoverrun,       \* K230_cmd: a write went past data[127]
    xcall,          \* the function last called: "none" | "init" | "cmd"
    xlog,           \* events of that call, in order: bytes transmitted, handler
                    \* invocations with the value returned
    xsegs,          \* K230_cmd: segments of the call whose terminator was seen
    xseg,           \* K230_cmd: bytes read in the segment in progress, after the
                    \* discarded byte
    xreads,         \* bytes the blocking reads of the call have returned
    xacks,          \* K230_Init: how many of them were 0x1B
    xwait,          \* empty polls of the blocking read in progress
    xhandled,       \* K230_cmd: handler invocations of the call in progress
    nisr,           \* bytes taken by the receive interrupt since start
    isr_stole,      \* the receive interrupt took a byte while an exchange was in progress
    pid_ret,        \* [called, val]: the value returned by the last PID_Calculate call
                    \* since the controllers were set up
    drive,          \* TRUE once the PID is driven with positive error only
    pid_call,       \* [n, target, current]: the arguments of the last PID_Calculate
                    \* call on pid_x; n flips at every call
    fn_call,        \* [f, in, out]: the last application of a function of the code
                    \* to drawn arguments, and what it returned
    zticks,         \* number of PID_Calculate calls on pid_x since its PID_Init, all
                    \* of them with target == current (-1: none, or some call differed)
    \* ---- gimbal_controller (gimbal_controller.h line 106)
    gimbal_ctrl,    \* static gimbal_control_t gimbal_ctrl
    gimbal_seq,     \* flips at every call of a gimbal_* function
    \* ---- a handler decoding its buffer with the K230_parse_* accessors
    parse_data,     \* uint8_t* data: the bytes of the buffer, from cell 0
    parse_index     \* uint8_t index: the handler's cursor

vars == << rx_order, pt, last_data, target_x, target_y, last_step, fobs, rx_data,
           phase, nprefix, frame, pos, wrote, prev_target,
           mread, snap_x, snap_y, gen_x, gen_y, commit_log, nsent,
           Servo_Target1, Servo_Target2, cc0, cc1, hw_log,
           pid_x, pid_y, pid_ret, drive, pid_call, zticks,
           irq_en, xpc, xtime, xret, xtemp, xlast, xlastlast, xi, xdata,
           xoverrun, xcall, xlog, xhandled, xsegs, xseg, xreads, xacks, xwait,
           nisr, isr_stole, fn_call, gimbal_ctrl, gimbal_seq,
           parse_data, parse_index >>

uartVars  == << rx_order, pt, last_data, target_x, target_y, last_step, fobs,
                rx_data >>
srcVars   == << phase, nprefix, frame, pos, wrote, prev_target >>
mainVars  == << mread, snap_x, snap_y, gen_x, gen_y, commit_log, nsent >>
servoVars == << Servo_Target1, Servo_Target2, cc0, cc1, hw_log >>
pidVars   == << pid_x, pid_y, pid_ret, drive, pid_call, zticks >>
xchgVars  == << irq_en, xpc, xtime, xret, xtemp, xlast, xlastlast, xi, xdata,
                xoverrun, xcall, xlog, xhandled, xsegs, xseg, xreads, xacks,
                xwait, nisr, isr_stole >>
gimbalVars == << gimbal_ctrl, gimbal_seq >>
parseVars == << parse_data, parse_index >>

(***************************************************************************)
(* Frame synchronizer                                                      *)
(***************************************************************************)
SYNC_BYTE == 170
END_BYTE  == 255
FRAME_LEN == 9

\* Bound of the model: free bytes delivered before the frame under test.
MaxPrefix == 3

\* Bytes the peer draws from (0x00, 0x96, 0xC8 and the two marker values).
PayloadBytes == {0, 150, 200, SYNC_BYTE, END_BYTE}
PrefixBytes  == {0, SYNC_BYTE, END_BYTE}

\* rx_order[2] + rx_order[3] + rx_order[4] + rx_order[5] == rx_order[6]:
\* the operands are promoted to int, the sum is not reduced to 8 bits.
ChecksumOK(buf) == buf[2] + buf[3] + buf[4] + buf[5] = buf[6]

\* the two bytes of x combined in the wrong order
CoordX_Swapped(buf) == (buf[3] * 256 + buf[2]) % 65536

\* ((uint16_t)rx_order[2] << 8) | rx_order[3], stored in a uint16_t
CoordX(buf) == (buf[2] * 256 + buf[3]) % 65536

\* ((uint16_t)rx_order[4] << 8) | rx_order[5], stored in a uint16_t
CoordY(buf) == (buf[4] * 256 + buf[5]) % 65536

\* the cursor advanced as a uint8_t, without the wrap at the buffer length
NextPt_NoWrap(p) == (p + 1) % 256

\* pt++; pt %= 9
NextPt(p) == (p + 1) % FRAME_LEN

\* the sync branch clearing the cells behind the markers as well
SyncBuffer_Clearing(buf) ==
    [i \in DOMAIN buf |-> IF i < 2 THEN SYNC_BYTE ELSE 0]

\* rx_order[0] = 0xAA; rx_order[1] = 0xAA
SyncBuffer(buf) == [buf EXCEPT ![0] = SYNC_BYTE, ![1] = SYNC_BYTE]

\* observation of one UART_0_rx_DataFrame call that took the given branch
NoteStep(o, step) ==
    IF step.branch = "sync"
      THEN [since |-> 0, terms |-> 0, commits |-> 0]
      ELSE [since   |-> IF o.since >= 0 THEN o.since + 1 ELSE o.since,
            terms   |-> IF step.branch = "term" THEN o.terms + 1 ELSE o.terms,
            commits |-> IF step.commit THEN o.commits + 1 ELSE o.commits]

\* void UART_0_rx_DataFrame(void), with rx_data = b
UART_0_rx_DataFrame(b) ==
    /\ IF last_data = b /\ b = SYNC_BYTE
         THEN /\ pt' = 2
              /\ rx_order' = SyncBuffer(rx_order)
              /\ UNCHANGED << target_x, target_y >>
              /\ last_step' = [branch |-> "sync", commit |-> FALSE]
         ELSE IF last_data = b /\ b = END_BYTE
           THEN /\ IF ChecksumOK(rx_order)
                     THEN /\ target_x' = CoordX(rx_order)
                          /\ target_y' = CoordY(rx_order)
                          /\ last_step' = [branch |-> "term", commit |-> TRUE]
                     ELSE /\ UNCHANGED << target_x, target_y >>
                          /\ last_step' = [branch |-> "term", commit |-> FALSE]
                /\ UNCHANGED << pt, rx_order >>
           ELSE /\ rx_order' = [rx_order EXCEPT ![pt] = b]
                /\ pt' = NextPt(pt)
                /\ UNCHANGED << target_x, target_y >>
                /\ last_step' = [branch |-> "store", commit |-> FALSE]
    /\ rx_data' = b
    /\ last_data' = b
    /\ fobs' = NoteStep(fobs, last_step')

(***************************************************************************)
(* The byte source: free bytes, then one 9-byte frame                      *)
(***************************************************************************)
\* checksum byte of the coordinate frame: sum of the 4 coordinate bytes mod 256
FrameChecksum(xh, xl, yh, yl) == (xh + xl + yh + yl) % 256

\* the frame as it travels: 2 sync, x, y, checksum, 2 terminator bytes
MakeFrame(xh, xl, yh, yl, chk) ==
    << SYNC_BYTE, SYNC_BYTE, xh, xl, yh, yl, chk, END_BYTE, END_BYTE >>

\* coordinate carried by a frame
FrameX(f) == f[3] * 256 + f[4]
FrameY(f) == f[5] * 256 + f[6]
FrameValid(f) == f[7] = FrameChecksum(f[3], f[4], f[5], f[6])

\* Bound of the model: length of a stream of free bytes, long enough for the
\* cursor to run through the whole buffer
MaxStream == 11

\* a stream of free bytes, no frame in it
RxStream ==
    /\ phase = "prefix"
    /\ nprefix < MaxStream
    /\ \E b \in PrefixBytes : UART_0_rx_DataFrame(b)
    /\ nprefix' = nprefix + 1
    /\ UNCHANGED << phase, frame, pos, wrote, prev_target >>
    /\ UNCHANGED << mainVars, servoVars, pidVars, xchgVars, fn_call >>
    /\ UNCHANGED << gimbalVars, parseVars >>

\* a free byte arrives and is handled by the receive interrupt
RxPrefix ==
    /\ phase = "prefix"
    /\ nprefix < MaxPrefix
    /\ \E b \in PrefixBytes : UART_0_rx_DataFrame(b)
    /\ nprefix' = nprefix + 1
    /\ UNCHANGED << phase, frame, pos, wrote, prev_target >>
    /\ UNCHANGED << mainVars, servoVars, pidVars >>
    /\ UNCHANGED << xchgVars, fn_call >>
    /\ UNCHANGED << gimbalVars, parseVars >>

\* the peer starts a frame: payload bytes and a checksum byte, correct or not
StartFrame ==
    /\ phase = "prefix"
    /\ \E xh \in PayloadBytes, xl \in PayloadBytes, yh \in PayloadBytes, yl \in PayloadBytes :
         \E chk \in { FrameChecksum(xh, xl, yh, yl),
                      (FrameChecksum(xh, xl, yh, yl) + 1) % 256, 0 } :
            frame' = MakeFrame(xh, xl, yh, yl, chk)
    /\ phase' = "frame"
    /\ pos' = 1
    /\ wrote' = FALSE
    /\ prev_target' = << target_x, target_y >>
    /\ UNCHANGED << nprefix, uartVars, mainVars, servoVars, pidVars >>
    /\ UNCHANGED << xchgVars, fn_call >>
    /\ UNCHANGED << gimbalVars, parseVars >>

\* the next byte of the frame arrives and is handled by the receive interrupt
RxFrame ==
    /\ phase = "frame"
    /\ UART_0_rx_DataFrame(frame[pos])
    /\ wrote' = (wrote \/ last_step'.commit)
    /\ pos' = pos + 1
    /\ phase' = IF pos = FRAME_LEN THEN "done" ELSE "frame"
    /\ commit_log' = IF last_step'.commit
                        THEN Append(commit_log, << FrameX(frame), FrameY(frame) >>)
                        ELSE commit_log
    /\ UNCHANGED << nprefix, frame, prev_target >>
    /\ UNCHANGED << mread, snap_x, snap_y, gen_x, gen_y, nsent >>
    /\ UNCHANGED << servoVars, pidVars >>
    /\ UNCHANGED << xchgVars, fn_call >>
    /\ UNCHANGED << gimbalVars, parseVars >>

(***************************************************************************)
(* servo.c: angle/PWM mapper and safety clamp                              *)
(***************************************************************************)
\* Fixed point: a float f of servo.c (an angle in degrees, a PID term) is the
\* integer f * SCALE.  800 makes every calibration constant and both
\* coordinate-to-angle slopes (100.8/640 and 33/480 degrees per pixel) integers.
SCALE == 800
\* PID gains are given in hundredths: Kp = 10 stands for 0.10
GAIN_DEN == 100

SERVO1_MIN_ANGLE  == 7200      \*   9.0 degrees
SERVO1_MAX_ANGLE  == 136800    \* 171.0 degrees
SERVO2_MIN_ANGLE  == 10800     \*  13.5 degrees
SERVO2_MAX_ANGLE  == 205200    \* 256.5 degrees
SERVO_PWM_MIN     == 24
SERVO_PWM_MAX     == 96
SERVO_X_MIN_ANGLE == -40320    \* -50.4 degrees
SERVO_X_MAX_ANGLE == 40320     \*  50.4 degrees
SERVO_Y_MIN_ANGLE == -13200    \* -16.5 degrees
SERVO_Y_MAX_ANGLE == 13200     \*  16.5 degrees
SCREEN_CENTER_X   == 320
SCREEN_CENTER_Y   == 240
SERVO_INIT_PWM    == 60        \* Servo_Init writes 60 to both channels
AMPLITUDE_L       == 24        \* Servo_Limitation: Amplitude_L
AMPLITUDE_H       == 96        \* Servo_Limitation: Amplitude_H

\* Clamp_Angle with both range checks dropped
Clamp_Angle_Unclamped(angle, min_angle, max_angle) == angle

\* static float Clamp_Angle(float angle, float min_angle, float max_angle)
Clamp_Angle(angle, min_angle, max_angle) ==
    IF angle < min_angle THEN min_angle
    ELSE IF angle > max_angle THEN max_angle
    ELSE angle

\* Angle_To_PWM converting without the + 0.5f: the duty is truncated
Angle_To_PWM_Truncating(angle, min_angle, max_angle) ==
    LET a   == Clamp_Angle(angle, min_angle, max_angle)
        den == max_angle - min_angle
        num == SERVO_PWM_MIN * den + (a - min_angle) * (SERVO_PWM_MAX - SERVO_PWM_MIN)
    IN  (num \div den) % 65536

\* static uint16_t Angle_To_PWM(float angle, float min_angle, float max_angle):
\* pwm = PWM_MIN + (a - min) * (PWM_MAX - PWM_MIN) / (max - min), then
\* (uint16_t)(pwm + 0.5f), i.e. floor((2*pwm + 1) / 2) for pwm >= 0
Angle_To_PWM(angle, min_angle, max_angle) ==
    LET a   == Clamp_Angle(angle, min_angle, max_angle)
        den == max_angle - min_angle
        num == SERVO_PWM_MIN * den + (a - min_angle) * (SERVO_PWM_MAX - SERVO_PWM_MIN)
    IN  ((2 * num + den) \div (2 * den)) % 65536

\* the servo driver's state as a value: Servo_Target1/2, the two compare
\* registers, and the events of the operation in progress
ServoState == [t1 |-> Servo_Target1, t2 |-> Servo_Target2,
               c0 |-> cc0, c1 |-> cc1, log |-> << >>]

WriteEv(ch, v) == [ev |-> "write", ch |-> ch, val |-> v]
LimitEv == [ev |-> "limit", ch |-> 0, val |-> 0]
CallEv(n) == [ev |-> "call", ch |-> n, val |-> 0]

\* one axis of Servo_Limitation: the two ifs in program order
LimitOne(t) ==
    LET a == IF t < AMPLITUDE_L THEN AMPLITUDE_L ELSE t
    IN  IF a > AMPLITUDE_H THEN AMPLITUDE_H ELSE a

\* void Servo_Limitation(void): clamps the globals Servo_Target1/2 only
Servo_Limitation(s) ==
    [s EXCEPT !.t1 = LimitOne(s.t1), !.t2 = LimitOne(s.t2),
              !.log = Append(s.log, LimitEv)]

\* void Set_Servo_Angle(uint8_t servo_num, float angle): the PWM value is
\* stored and written to the timer first, Servo_Limitation() is called last
Set_Servo_Angle(s, servo_num, angle) ==
    LET p1 == Angle_To_PWM(angle, SERVO1_MIN_ANGLE, SERVO1_MAX_ANGLE)
        p2 == Angle_To_PWM(angle, SERVO2_MIN_ANGLE, SERVO2_MAX_ANGLE)
        e  == [s EXCEPT !.log = Append(s.log, CallEv(servo_num))]
        w  == IF servo_num = 1
                THEN [e EXCEPT !.t1 = p1, !.c0 = p1,
                               !.log = Append(e.log, WriteEv(0, p1))]
                ELSE IF servo_num = 2
                  THEN [e EXCEPT !.t2 = p2, !.c1 = p2,
                                 !.log = Append(e.log, WriteEv(1, p2))]
                  ELSE e
    IN  Servo_Limitation(w)

\* void Servo_Init(void)
Servo_Init(s) ==
    [s EXCEPT !.c0 = SERVO_INIT_PWM, !.c1 = SERVO_INIT_PWM,
              !.log = << WriteEv(0, SERVO_INIT_PWM), WriteEv(1, SERVO_INIT_PWM) >>]

(***************************************************************************)
(* servo.c: PID controller                                                 *)
(***************************************************************************)
\* PID_Controller pid = {0}: a controller before PID_Init
ZeroPID == [Kp |-> 0, Ki |-> 0, Kd |-> 0, error |-> 0, error_last |-> 0,
            integral |-> 0, output |-> 0, output_max |-> 0, output_min |-> 0]

\* Bound of the model: zero-error calls counted since PID_Init
MaxZeroTicks == 3

\* observation of a PID_Calculate(pid_x, target, current) call
NoteCall(target, current) ==
    /\ pid_call' = [n |-> 1 - pid_call.n, target |-> target, current |-> current]
    /\ zticks' = IF zticks >= 0 /\ target = current
                   THEN (IF zticks < MaxZeroTicks THEN zticks + 1 ELSE zticks)
                   ELSE -1

\* no PID_Calculate call has returned yet
NoRet == [called |-> FALSE, val |-> 0]
Ret(v) == [called |-> TRUE, val |-> v]

\* void PID_Init(pid, kp, ki, kd, min, max); min and max in SCALE units
PID_Init(kp, ki, kd, min, max) ==
    [Kp |-> kp, Ki |-> ki, Kd |-> kd, error |-> 0, error_last |-> 0,
     integral |-> 0, output |-> 0, output_max |-> max, output_min |-> min]

\* PID_Calculate with the anti-windup clamp of the integral dropped
PID_Calculate_NoWindupClamp(pid, target, current) ==
    LET error == (target - current) * SCALE
        i0 == pid.integral + error
        derivative == error - pid.error_last
        o0 == (pid.Kp * error + pid.Ki * i0 + pid.Kd * derivative) \div GAIN_DEN
        o1 == IF o0 > pid.output_max THEN pid.output_max ELSE o0
        o2 == IF o1 < pid.output_min THEN pid.output_min ELSE o1
    IN  [pid |-> [pid EXCEPT !.error = error, !.integral = i0,
                             !.output = o2, !.error_last = error],
         ret |-> o2]

\* PID_Calculate returning the output before it is limited
PID_Calculate_RawReturn(pid, target, current) ==
    LET error == (target - current) * SCALE
        i0 == pid.integral + error
        i1 == IF i0 > pid.output_max THEN pid.output_max ELSE i0
        i2 == IF i1 < pid.output_min THEN pid.output_min ELSE i1
        derivative == error - pid.error_last
        o0 == (pid.Kp * error + pid.Ki * i2 + pid.Kd * derivative) \div GAIN_DEN
        o1 == IF o0 > pid.output_max THEN pid.output_max ELSE o0
        o2 == IF o1 < pid.output_min THEN pid.output_min ELSE o1
    IN  [pid |-> [pid EXCEPT !.error = error, !.integral = i2,
                             !.output = o2, !.error_last = error],
         ret |-> o0]

\* PID_Calculate with the error taken as target + current
PID_Calculate_ErrorSum(pid, target, current) ==
    LET error == (target + current) * SCALE
        i0 == pid.integral + error
        i1 == IF i0 > pid.output_max THEN pid.output_max ELSE i0
        i2 == IF i1 < pid.output_min THEN pid.output_min ELSE i1
        derivative == error - pid.error_last
        o0 == (pid.Kp * error + pid.Ki * i2 + pid.Kd * derivative) \div GAIN_DEN
        o1 == IF o0 > pid.output_max THEN pid.output_max ELSE o0
        o2 == IF o1 < pid.output_min THEN pid.output_min ELSE o1
    IN  [pid |-> [pid EXCEPT !.error = error, !.integral = i2,
                             !.output = o2, !.error_last = error],
         ret |-> o2]

\* PID_Calculate without the final pid->error_last = pid->error
PID_Calculate_NoLastError(pid, target, current) ==
    LET error == (target - current) * SCALE
        i0 == pid.integral + error
        i1 == IF i0 > pid.output_max THEN pid.output_max ELSE i0
        i2 == IF i1 < pid.output_min THEN pid.output_min ELSE i1
        derivative == error - pid.error_last
        o0 == (pid.Kp * error + pid.Ki * i2 + pid.Kd * derivative) \div GAIN_DEN
        o1 == IF o0 > pid.output_max THEN pid.output_max ELSE o0
        o2 == IF o1 < pid.output_min THEN pid.output_min ELSE o1
    IN  [pid |-> [pid EXCEPT !.error = error, !.integral = i2, !.output = o2],
         ret |-> o2]

\* float PID_Calculate(pid, target, current): the new controller state and
\* the returned value
PID_Calculate(pid, target, current) ==
    LET error == (target - current) * SCALE
        i0 == pid.integral + error
        i1 == IF i0 > pid.output_max THEN pid.output_max ELSE i0
        i2 == IF i1 < pid.output_min THEN pid.output_min ELSE i1
        derivative == error - pid.error_last
        o0 == (pid.Kp * error + pid.Ki * i2 + pid.Kd * derivative) \div GAIN_DEN
        o1 == IF o0 > pid.output_max THEN pid.output_max ELSE o0
        o2 == IF o1 < pid.output_min THEN pid.output_min ELSE o1
    IN  [pid |-> [pid EXCEPT !.error = error, !.integral = i2,
                             !.output = o2, !.error_last = error],
         ret |-> o2]

\* the mapper without its two range tests
Map_Coordinate_To_Angle_Unclamped(coordinate, min_coord, max_coord, min_angle, max_angle) ==
    min_angle + ((coordinate - min_coord) * (max_angle - min_angle))
                \div (max_coord - min_coord)

\* float Map_Coordinate_To_Angle(coordinate, min_coord, max_coord, min_angle, max_angle)
Map_Coordinate_To_Angle(coordinate, min_coord, max_coord, min_angle, max_angle) ==
    LET angle == min_angle
                 + ((coordinate - min_coord) * (max_angle - min_angle))
                   \div (max_coord - min_coord)
        a1 == IF angle < min_angle THEN min_angle ELSE angle
    IN  IF a1 > max_angle THEN max_angle ELSE a1

\* Update_Servo_Position commanding the mapped angles without the PID outputs
Update_Servo_Position_NoPID(s, px, py, x, y) ==
    LET current_angle_x == Map_Coordinate_To_Angle(x, 0, 640, SERVO_X_MIN_ANGLE, SERVO_X_MAX_ANGLE)
        rx == PID_Calculate(px, SCREEN_CENTER_X, x)
        current_angle_y == Map_Coordinate_To_Angle(y, 0, 480, SERVO_Y_MIN_ANGLE, SERVO_Y_MAX_ANGLE)
        ry == PID_Calculate(py, SCREEN_CENTER_Y, y)
    IN  [servo |-> Set_Servo_Angle(Set_Servo_Angle(s, 1, current_angle_x), 2, current_angle_y),
         pid_x |-> rx.pid, pid_y |-> ry.pid, ret |-> ry.ret,
         angle_x |-> current_angle_x, angle_y |-> current_angle_y]

\* Update_Servo_Position with one controller serving both axes
Update_Servo_Position_SharedPID(s, px, py, x, y) ==
    LET current_angle_x == Map_Coordinate_To_Angle(x, 0, 640, SERVO_X_MIN_ANGLE, SERVO_X_MAX_ANGLE)
        rx == PID_Calculate(px, SCREEN_CENTER_X, x)
        new_angle_x == current_angle_x + rx.ret
        current_angle_y == Map_Coordinate_To_Angle(y, 0, 480, SERVO_Y_MIN_ANGLE, SERVO_Y_MAX_ANGLE)
        ry == PID_Calculate(rx.pid, SCREEN_CENTER_Y, y)
        new_angle_y == current_angle_y + ry.ret
    IN  [servo |-> Set_Servo_Angle(Set_Servo_Angle(s, 1, new_angle_x), 2, new_angle_y),
         pid_x |-> ry.pid, pid_y |-> py, ret |-> ry.ret,
         angle_x |-> new_angle_x, angle_y |-> new_angle_y]

\* void Update_Servo_Position(float target_x, float target_y): the new servo
\* state, both controllers and the angles commanded
Update_Servo_Position(s, px, py, x, y) ==
    LET current_angle_x == Map_Coordinate_To_Angle(x, 0, 640, SERVO_X_MIN_ANGLE, SERVO_X_MAX_ANGLE)
        rx == PID_Calculate(px, SCREEN_CENTER_X, x)
        new_angle_x == current_angle_x + rx.ret
        current_angle_y == Map_Coordinate_To_Angle(y, 0, 480, SERVO_Y_MIN_ANGLE, SERVO_Y_MAX_ANGLE)
        ry == PID_Calculate(py, SCREEN_CENTER_Y, y)
        new_angle_y == current_angle_y + ry.ret
    IN  [servo |-> Set_Servo_Angle(Set_Servo_Angle(s, 1, new_angle_x), 2, new_angle_y),
         pid_x |-> rx.pid, pid_y |-> ry.pid, ret |-> ry.ret,
         angle_x |-> new_angle_x, angle_y |-> new_angle_y]

\* store a servo state value into the variables
SetServoVars(s) ==
    /\ Servo_Target1' = s.t1
    /\ Servo_Target2' = s.t2
    /\ cc0' = s.c0
    /\ cc1' = s.c1
    /\ hw_log' = s.log

(***************************************************************************)
(* Servo operations as called by the application                           *)
(***************************************************************************)
\* inputs: commanded angles (degrees * SCALE), pixel coordinates, PID set-ups
AngleInputs == { -80000, 7200, 72000, 205200, 400000 }
CoordInputsX == { 0, 319, 320, 1000 }
CoordInputsY == { 0, 240, 1000 }
PIDConfigs  == { << 10, 1, 5, -2400, 2400 >>,      \* 0.1, 0.01, 0.05, [-3, 3]
                 << 100, 100, 0, -800, 1600 >> }   \* 1.0, 1.0, 0, [-1, 2]

DoServoInit ==
    /\ SetServoVars(Servo_Init(ServoState))
    /\ fn_call' = [f |-> "Servo_Init", in |-> << >>, out |-> 0]
    /\ UNCHANGED << uartVars, srcVars, mainVars, pidVars >>
    /\ UNCHANGED xchgVars
    /\ UNCHANGED << gimbalVars, parseVars >>

DoSetServoAngle ==
    /\ \E n \in 0..2, a \in AngleInputs :
          /\ SetServoVars(Set_Servo_Angle(ServoState, n, a))
          /\ fn_call' = [f |-> "Set_Servo_Angle", in |-> << >>, out |-> 0]
    /\ UNCHANGED << uartVars, srcVars, mainVars, pidVars >>
    /\ UNCHANGED xchgVars
    /\ UNCHANGED << gimbalVars, parseVars >>

DoPIDInit ==
    /\ \E c \in PIDConfigs :
          /\ pid_x' = PID_Init(c[1], c[2], c[3], c[4], c[5])
          /\ pid_y' = PID_Init(c[1], c[2], c[3], c[4], c[5])
    /\ pid_ret' = NoRet
    /\ zticks' = 0
    /\ fn_call' = [f |-> "PID_Init", in |-> << >>, out |-> 0]
    /\ UNCHANGED << drive, pid_call, uartVars, srcVars, mainVars, servoVars >>
    /\ UNCHANGED xchgVars
    /\ UNCHANGED << gimbalVars, parseVars >>

DoUpdateServoPosition ==
    /\ \E x \in CoordInputsX, y \in CoordInputsY :
          LET u == Update_Servo_Position(ServoState, pid_x, pid_y, x, y)
          IN  /\ SetServoVars(u.servo)
              /\ pid_x' = u.pid_x
              /\ pid_y' = u.pid_y
              /\ pid_ret' = Ret(u.ret)
              /\ NoteCall(SCREEN_CENTER_X, x)
              /\ fn_call' = [f |-> "Update_Servo_Position", in |-> << x, y >>,
                              out |-> << u.angle_x, u.angle_y >>]
    /\ UNCHANGED << drive, uartVars, srcVars, mainVars >>
    /\ UNCHANGED xchgVars
    /\ UNCHANGED << gimbalVars, parseVars >>

(***************************************************************************)
(* Angle_To_PWM applied to a grid of angles, per axis calibration          *)
(***************************************************************************)
\* Bound of the model: spacing of the angles tried, in SCALE units; 150 puts
\* grid points on the half-way angles between two duty values of both axes
AngleStep == 150
\* how many grid points lie below min_angle and above max_angle
AngleMargin == 3

AxisMin(axis) == IF axis = 1 THEN SERVO1_MIN_ANGLE ELSE SERVO2_MIN_ANGLE
AxisMax(axis) == IF axis = 1 THEN SERVO1_MAX_ANGLE ELSE SERVO2_MAX_ANGLE

\* angles from below min_angle to above max_angle, and the far inputs
AngleGrid(axis) ==
    { AxisMin(axis) + (k - AngleMargin) * AngleStep :
        k \in 0..((AxisMax(axis) - AxisMin(axis)) \div AngleStep + 2 * AngleMargin) }
    \cup AngleInputs

\* one application per behaviour, to any angle of the grid
DoAngleToPWM ==
    /\ fn_call.f = "none"
    /\ \E axis \in {1, 2} : \E a \in AngleGrid(axis) :
          fn_call' = [f |-> "Angle_To_PWM", in |-> << axis, a >>,
                      out |-> Angle_To_PWM(a, AxisMin(axis), AxisMax(axis))]
    /\ UNCHANGED << uartVars, srcVars, mainVars, servoVars, pidVars, xchgVars >>
    /\ UNCHANGED << gimbalVars, parseVars >>

(***************************************************************************)
(* The PID controller on its own (pid_x), any set-up, any inputs           *)
(***************************************************************************)
\* Bound of the model: targets and currents range over 0..MaxIn
MaxIn == 3
PIDInputs == 0..MaxIn

\* set-ups handed to PID_Init: kp, ki, kd (hundredths), min, max (SCALE units);
\* the last one has min > max
PIDTestConfigs == { << 10, 1, 5, -2400, 2400 >>,
                    << 100, 100, 0, -800, 1600 >>,
                    << 10, 1, 5, -2400, -800 >>,
                    << 100, 0, 0, 0, 0 >>,
                    << 10, 1, 5, 800, -800 >> }

PIDSetup ==
    /\ ~drive
    /\ \E c \in PIDTestConfigs : pid_x' = PID_Init(c[1], c[2], c[3], c[4], c[5])
    /\ pid_ret' = NoRet
    /\ zticks' = 0
    /\ UNCHANGED << pid_y, drive, pid_call, uartVars, srcVars, mainVars, servoVars >>
    /\ UNCHANGED << xchgVars, fn_call >>
    /\ UNCHANGED << gimbalVars, parseVars >>

\* one control tick with any target and current
PIDTick ==
    /\ ~drive
    /\ \E t \in PIDInputs, c \in PIDInputs :
          LET r == PID_Calculate(pid_x, t, c)
          IN  pid_x' = r.pid /\ pid_ret' = Ret(r.ret) /\ NoteCall(t, c)
    /\ UNCHANGED << pid_y, drive, uartVars, srcVars, mainVars, servoVars >>
    /\ UNCHANGED << xchgVars, fn_call >>
    /\ UNCHANGED << gimbalVars, parseVars >>

\* from now on every tick has a positive error (target > current)
StartDrive ==
    /\ ~drive
    /\ drive' = TRUE
    /\ UNCHANGED << pid_x, pid_y, pid_ret, pid_call, zticks >>
    /\ UNCHANGED << uartVars, srcVars, mainVars, servoVars >>
    /\ UNCHANGED << xchgVars, fn_call >>
    /\ UNCHANGED << gimbalVars, parseVars >>

PIDTickPositive ==
    /\ drive
    /\ \E t \in PIDInputs, c \in PIDInputs :
          /\ t > c
          /\ LET r == PID_Calculate(pid_x, t, c)
             IN  pid_x' = r.pid /\ pid_ret' = Ret(r.ret) /\ NoteCall(t, c)
    /\ UNCHANGED << pid_y, drive, uartVars, srcVars, mainVars, servoVars >>
    /\ UNCHANGED << xchgVars, fn_call >>
    /\ UNCHANGED << gimbalVars, parseVars >>

(***************************************************************************)
(* Receive interrupt against the main context's control tick               *)
(***************************************************************************)
\* Bound of the model: frames the peer sends
MaxFrames == 2
\* low bytes of the coordinates the peer sends (high bytes are 0)
RaceCoords == {1, 2}

\* the peer sends a valid frame
PeerSendFrame ==
    /\ phase \in {"prefix", "done"}
    /\ nsent < MaxFrames
    /\ \E x \in RaceCoords, y \in RaceCoords :
          frame' = MakeFrame(0, x, 0, y, FrameChecksum(0, x, 0, y))
    /\ phase' = "frame"
    /\ pos' = 1
    /\ wrote' = FALSE
    /\ prev_target' = << target_x, target_y >>
    /\ nsent' = nsent + 1
    /\ UNCHANGED << nprefix, mread, snap_x, snap_y, gen_x, gen_y, commit_log >>
    /\ UNCHANGED << uartVars, servoVars, pidVars >>
    /\ UNCHANGED << xchgVars, fn_call >>
    /\ UNCHANGED << gimbalVars, parseVars >>

\* the main context reads target_x for the next control tick
MainReadX ==
    /\ "x" \notin mread
    /\ snap_x' = target_x
    /\ gen_x' = Len(commit_log)
    /\ mread' = mread \cup {"x"}
    /\ UNCHANGED << snap_y, gen_y, commit_log, nsent >>
    /\ UNCHANGED << uartVars, srcVars, servoVars, pidVars >>
    /\ UNCHANGED << xchgVars, fn_call >>
    /\ UNCHANGED << gimbalVars, parseVars >>

\* the main context reads target_y for the next control tick
MainReadY ==
    /\ "y" \notin mread
    /\ snap_y' = target_y
    /\ gen_y' = Len(commit_log)
    /\ mread' = mread \cup {"y"}
    /\ UNCHANGED << snap_x, gen_x, commit_log, nsent >>
    /\ UNCHANGED << uartVars, srcVars, servoVars, pidVars >>
    /\ UNCHANGED << xchgVars, fn_call >>
    /\ UNCHANGED << gimbalVars, parseVars >>

\* the control tick: Update_Servo_Position(target_x, target_y) on the values read
ControlTick ==
    /\ mread = {"x", "y"}
    /\ LET u == Update_Servo_Position(ServoState, pid_x, pid_y, snap_x, snap_y)
       IN  /\ SetServoVars(u.servo)
           /\ pid_x' = u.pid_x
           /\ pid_y' = u.pid_y
           /\ pid_ret' = Ret(u.ret)
           /\ NoteCall(SCREEN_CENTER_X, snap_x)
           /\ fn_call' = [f |-> "Update_Servo_Position", in |-> << snap_x, snap_y >>,
                           out |-> << u.angle_x, u.angle_y >>]
    /\ mread' = {}
    /\ UNCHANGED << snap_x, snap_y, gen_x, gen_y, commit_log, nsent >>
    /\ UNCHANGED << drive, uartVars, srcVars >>
    /\ UNCHANGED xchgVars
    /\ UNCHANGED << gimbalVars, parseVars >>

(***************************************************************************)
(* K230_Init and K230_cmd: the blocking exchange, one action per blocking  *)
(* read, against the receive interrupt                                     *)
(***************************************************************************)
SELF_CHECK_CMD == 26     \* 0x1A
SELF_CHECK_ACK == 27     \* 0x1B
STOP_CMD       == 28     \* 0x1C
TIME_OUT       == 255    \* 0xFF
END1           == 1      \* 0x01
END2           == 254    \* 0xFE
END3           == 255    \* 0xFF
DATA_LEN       == 128    \* uint8_t data[128]

\* Bounds of the model: bytes stored per response segment, handler invocations
\* per K230_cmd call, bytes taken by the receive interrupt, empty polls of one
\* blocking read, bytes stored of a long segment of filler bytes
MaxSegLen   == 3
MaxSegments == 2
MaxIsr      == 2
MaxWait     == 2
LongSegLen  == 130

\* bytes the peer answers with, command bytes the caller sends, values the
\* handler returns
XchgBytes == {0, END1, SELF_CHECK_ACK, END2, END3}
CmdBytes  == {SELF_CHECK_CMD, STOP_CMD, 29}
HandlerFlags == {0, 1, 2}

\* the pcs at which the main context waits in DL_UART_Main_receiveDataBlocking
BlockingReads == {"init_read", "cmd_ack", "cmd_first", "cmd_body"}

\* events of a call: a byte transmitted, the handler invoked and what it returned
TxEv(b) == << "tx", b >>
HandlerEv(r) == << "handler", r >>

\* loop test of K230_cmd with END1 left out: two bytes end a segment
TermSeen_NoEND1(temp, last, lastlast) == temp = END3 /\ last = END2

\* loop test of K230_cmd: temp == END3 && last_temp == END2 && last_last_temp == END1
TermSeen(temp, last, lastlast) == temp = END3 /\ last = END2 /\ lastlast = END1

\* the time-out test with > for >=
TimedOut_StrictlyGreater(time) == time > TIME_OUT

\* K230_Init: time++ >= TIME_OUT, on the value of time before the increment
TimedOut(time) == time >= TIME_OUT

\* a loop that goes on only for the flag 1
HandlerContinues_OnlyOne(loop_flag) == loop_flag = 1

\* K230_cmd: while(loop_flag)
HandlerContinues(loop_flag) == loop_flag # 0

\* STOP_CMD sent after every handler invocation
AfterHandler_StopEveryTime(log, loop_flag) ==
    Append(Append(log, HandlerEv(loop_flag)), TxEv(STOP_CMD))

\* K230_cmd from the handler call on: the handler returns loop_flag; when the
\* loop ends STOP_CMD is transmitted
AfterHandler(log, loop_flag) ==
    IF HandlerContinues(loop_flag)
      THEN Append(log, HandlerEv(loop_flag))
      ELSE Append(Append(log, HandlerEv(loop_flag)), TxEv(STOP_CMD))

\* a blocking read that gives up after MaxWait empty polls
WaitOutcome_TimesOut(pc, waited) == IF waited >= MaxWait THEN "idle" ELSE pc

\* DL_UART_Main_receiveDataBlocking after an empty poll: it polls again,
\* however long it has waited
WaitOutcome(pc, waited) == pc

\* K230_Init up to its first blocking read: the receive interrupt is enabled,
\* SELF_CHECK_CMD is sent, the loop is entered with data = 0 and time++ = 0
K230InitStart ==
    /\ xpc = "idle"
    /\ irq_en' = TRUE
    /\ xcall' = "init"
    /\ xlog' = << TxEv(SELF_CHECK_CMD) >>
    /\ xtime' = 1
    /\ xret' = -1
    /\ xpc' = "init_read"
    /\ xhandled' = 0 /\ xsegs' = 0 /\ xseg' = << >>
    /\ xreads' = 0 /\ xacks' = 0 /\ xwait' = 0
    /\ UNCHANGED << xtemp, xlast, xlastlast, xi, xdata, xoverrun, nisr, isr_stole >>
    /\ UNCHANGED << uartVars, srcVars, mainVars, servoVars, pidVars, fn_call >>
    /\ UNCHANGED << gimbalVars, parseVars >>

\* K230_Init: the blocking read returns b; then the loop test and the time-out
\* test.  The local time does not outlive the call.
K230InitRead ==
    /\ xpc = "init_read"
    /\ \E b \in XchgBytes :
          /\ xacks' = IF b = SELF_CHECK_ACK THEN xacks + 1 ELSE xacks
          /\ IF b = SELF_CHECK_ACK
               THEN xret' = 1 /\ xpc' = "idle" /\ xtime' = 0
               ELSE IF TimedOut(xtime)
                 THEN xret' = 0 /\ xpc' = "idle" /\ xtime' = 0
                 ELSE xret' = xret /\ xpc' = "init_read" /\ xtime' = (xtime + 1) % 256
    /\ xreads' = xreads + 1
    /\ xwait' = 0
    /\ UNCHANGED << irq_en, xtemp, xlast, xlastlast, xi, xdata, xoverrun,
                    xcall, xlog, xhandled, xsegs, xseg, nisr, isr_stole >>
    /\ UNCHANGED << uartVars, srcVars, mainVars, servoVars, pidVars, fn_call >>
    /\ UNCHANGED << gimbalVars, parseVars >>

\* K230_cmd up to its first blocking read: the command byte is sent, loop_flag = 1
K230CmdStart ==
    /\ xpc = "idle"
    /\ xcall' = "cmd"
    /\ \E cmd \in CmdBytes : xlog' = << TxEv(cmd) >>
    /\ xhandled' = 0 /\ xsegs' = 0 /\ xseg' = << >>
    /\ xreads' = 0 /\ xacks' = 0 /\ xwait' = 0
    /\ xdata' = << >>
    /\ xoverrun' = FALSE
    /\ xpc' = "cmd_ack"
    /\ UNCHANGED << irq_en, xtime, xret, xtemp, xlast, xlastlast, xi, nisr, isr_stole >>
    /\ UNCHANGED << uartVars, srcVars, mainVars, servoVars, pidVars, fn_call >>
    /\ UNCHANGED << gimbalVars, parseVars >>

\* K230_cmd: the first read of a segment returns a byte that is discarded
K230CmdAck ==
    /\ xpc = "cmd_ack"
    /\ \E b \in XchgBytes : xpc' = "cmd_first"
    /\ xreads' = xreads + 1
    /\ xwait' = 0
    /\ UNCHANGED << irq_en, xtime, xret, xtemp, xlast, xlastlast, xi, xdata,
                    xoverrun, xcall, xlog, xhandled, xsegs, xseg, xacks,
                    nisr, isr_stole >>
    /\ UNCHANGED << uartVars, srcVars, mainVars, servoVars, pidVars, fn_call >>
    /\ UNCHANGED << gimbalVars, parseVars >>

\* K230_cmd: temp = first byte of the segment, last_temp = last_last_temp = 0, i = 0
K230CmdFirst ==
    /\ xpc = "cmd_first"
    /\ \E b \in XchgBytes :
          /\ xtemp' = b
          /\ xseg' = << b >>
          /\ xpc' = IF TermSeen(b, 0, 0) THEN "cmd_handle" ELSE "cmd_body"
          /\ xsegs' = IF TermSeen(b, 0, 0) THEN xsegs + 1 ELSE xsegs
    /\ xlast' = 0
    /\ xlastlast' = 0
    /\ xi' = 0
    /\ xreads' = xreads + 1
    /\ xwait' = 0
    /\ UNCHANGED << irq_en, xtime, xret, xdata, xoverrun, xcall, xlog, xhandled,
                    xacks, nisr, isr_stole >>
    /\ UNCHANGED << uartVars, srcVars, mainVars, servoVars, pidVars, fn_call >>
    /\ UNCHANGED << gimbalVars, parseVars >>

\* one turn of the inner loop of K230_cmd: data[i++] = temp, the window shifts,
\* the blocking read returns b
K230CmdStore(b) ==
    /\ IF xi < DATA_LEN
         THEN xdata' = [k \in (DOMAIN xdata) \cup {xi} |->
                            IF k = xi THEN xtemp ELSE xdata[k]]
              /\ xoverrun' = xoverrun
         ELSE xdata' = xdata /\ xoverrun' = TRUE
    /\ xi' = (xi + 1) % 256
    /\ xlastlast' = xlast
    /\ xlast' = xtemp
    /\ xtemp' = b
    /\ xseg' = Append(xseg, b)
    /\ xpc' = IF TermSeen(b, xtemp, xlast) THEN "cmd_handle" ELSE "cmd_body"
    /\ xsegs' = IF TermSeen(b, xtemp, xlast) THEN xsegs + 1 ELSE xsegs
    /\ xreads' = xreads + 1
    /\ xwait' = 0
    /\ UNCHANGED << irq_en, xtime, xret, xcall, xlog, xhandled, xacks, nisr, isr_stole >>
    /\ UNCHANGED << uartVars, srcVars, mainVars, servoVars, pidVars, fn_call >>

\* the inner loop within the first MaxSegLen bytes of a segment: any byte
K230CmdBody ==
    /\ xpc = "cmd_body"
    /\ xi < MaxSegLen
    /\ \E b \in XchgBytes : K230CmdStore(b)
    /\ UNCHANGED << gimbalVars, parseVars >>

\* the inner loop further into a segment: the peer goes on sending the filler
\* byte 0 and no terminator
K230CmdBodyLong ==
    /\ xpc = "cmd_body"
    /\ xi >= MaxSegLen /\ xi < LongSegLen
    /\ xtemp = 0 /\ xlast = 0 /\ xlastlast = 0
    /\ K230CmdStore(0)
    /\ UNCHANGED << gimbalVars, parseVars >>

\* K230_cmd: loop_flag = func(data); another segment with data[] as it stands,
\* or STOP_CMD and return, where the locals end
K230CmdHandle ==
    /\ xpc = "cmd_handle"
    /\ xhandled' = xhandled + 1
    /\ xseg' = << >>
    /\ \E loop_flag \in HandlerFlags :
          /\ xlog' = AfterHandler(xlog, loop_flag)
          /\ IF HandlerContinues(loop_flag)
               THEN /\ xhandled < MaxSegments - 1
                    /\ xpc' = "cmd_ack"
                    /\ UNCHANGED << xtemp, xlast, xlastlast, xi, xdata >>
               ELSE /\ xpc' = "idle"
                    /\ xtemp' = 0 /\ xlast' = 0 /\ xlastlast' = 0 /\ xi' = 0
                    /\ xdata' = << >>
    /\ UNCHANGED << irq_en, xtime, xret, xoverrun, xcall, xsegs, xreads, xacks,
                    xwait, nisr, isr_stole >>
    /\ UNCHANGED << uartVars, srcVars, mainVars, servoVars, pidVars, fn_call >>
    /\ UNCHANGED << gimbalVars, parseVars >>

\* the blocking read in progress polls the receiver and finds no byte
K230Wait ==
    /\ xpc \in BlockingReads
    /\ xwait < MaxWait
    /\ xwait' = xwait + 1
    /\ xpc' = WaitOutcome(xpc, xwait + 1)
    /\ UNCHANGED << irq_en, xtime, xret, xtemp, xlast, xlastlast, xi, xdata,
                    xoverrun, xcall, xlog, xhandled, xsegs, xseg, xreads, xacks,
                    nisr, isr_stole >>
    /\ UNCHANGED << uartVars, srcVars, mainVars, servoVars, pidVars, fn_call >>
    /\ UNCHANGED << gimbalVars, parseVars >>

\* a byte arrives while the receive interrupt is enabled and the interrupt takes
\* it: the Frame Synchronizer consumes it
RxIrq ==
    /\ irq_en
    /\ nisr < MaxIsr
    /\ \E b \in PrefixBytes : UART_0_rx_DataFrame(b)
    /\ nisr' = nisr + 1
    /\ isr_stole' = (isr_stole \/ xpc # "idle")
    /\ UNCHANGED << irq_en, xpc, xtime, xret, xtemp, xlast, xlastlast, xi, xdata,
                    xoverrun, xcall, xlog, xhandled, xsegs, xseg, xreads, xacks,
                    xwait >>
    /\ UNCHANGED << srcVars, mainVars, servoVars, pidVars, fn_call >>
    /\ UNCHANGED << gimbalVars, parseVars >>

(***************************************************************************)
(* Initial state: zero-initialised globals, nothing received               *)
(***************************************************************************)
Init ==
    /\ rx_order = [i \in 0..(FRAME_LEN - 1) |-> 0]
    /\ pt = 0
    /\ last_data = 0
    /\ target_x = 0
    /\ target_y = 0
    /\ last_step = [branch |-> "none", commit |-> FALSE]
    /\ fobs = [since |-> -1, terms |-> 0, commits |-> 0]
    /\ rx_data = 0
    /\ phase = "prefix"
    /\ nprefix = 0
    /\ frame = << >>
    /\ pos = 1
    /\ wrote = FALSE
    /\ prev_target = << 0, 0 >>
    /\ mread = {}
    /\ snap_x = 0
    /\ snap_y = 0
    /\ gen_x = 0
    /\ gen_y = 0
    /\ commit_log = << >>
    /\ nsent = 0
    /\ Servo_Target1 = 0
    /\ Servo_Target2 = 0
    /\ cc0 = 0
    /\ cc1 = 0
    /\ hw_log = << >>
    /\ pid_x = ZeroPID
    /\ pid_y = ZeroPID
    /\ pid_ret = NoRet
    /\ drive = FALSE
    /\ pid_call = [n |-> 0, target |-> 0, current |-> 0]
    /\ zticks = -1
    /\ fn_call = [f |-> "none", in |-> << >>, out |-> 0]
    /\ irq_en = FALSE
    /\ xpc = "idle"
    /\ xtime = 0
    /\ xret = -1
    /\ xtemp = 0
    /\ xlast = 0
    /\ xlastlast = 0
    /\ xi = 0
    /\ xdata = << >>
    /\ xoverrun = FALSE
    /\ xcall = "none"
    /\ xlog = << >>
    /\ xsegs = 0
    /\ xseg = << >>
    /\ xreads = 0
    /\ xacks = 0
    /\ xwait = 0
    /\ xhandled = 0
    /\ nisr = 0
    /\ isr_stole = FALSE
    /\ gimbal_ctrl = [pan_angle |-> 0, tilt_angle |-> 0, pan_pwm |-> 0,
                      tilt_pwm |-> 0, initialized |-> FALSE]
    /\ gimbal_seq = 0
    /\ parse_data = << >>
    /\ parse_index = 0

Next ==
    \/ RxPrefix
    \/ StartFrame
    \/ RxFrame

Spec == Init /\ [][Next]_vars

SpecStream == Init /\ [][RxStream]_vars

NextServo ==
    \/ DoServoInit
    \/ DoSetServoAngle
    \/ DoPIDInit
    \/ DoUpdateServoPosition

SpecServo == Init /\ [][NextServo]_vars

\* the control tick alone, on controllers set up by PID_Init
NextUpdate == DoPIDInit \/ DoUpdateServoPosition

SpecUpdate == Init /\ [][NextUpdate]_vars

NextPID ==
    \/ PIDSetup
    \/ PIDTick
    \/ StartDrive
    \/ PIDTickPositive

\* the control loop runs for the device's lifetime: a tick that is due is taken
FairSpecPID == Init /\ [][NextPID]_vars /\ WF_vars(PIDTickPositive)

NextRace ==
    \/ PeerSendFrame
    \/ RxFrame
    \/ MainReadX
    \/ MainReadY
    \/ ControlTick

SpecRace == Init /\ [][NextRace]_vars

NextPWM == DoAngleToPWM

SpecPWM == Init /\ [][NextPWM]_vars

NextExchange ==
    \/ K230InitStart
    \/ K230InitRead
    \/ K230CmdStart
    \/ K230CmdAck
    \/ K230CmdFirst
    \/ K230CmdBody
    \/ K230CmdHandle
    \/ RxIrq

SpecExchange == Init /\ [][NextExchange]_vars

\* K230_cmd alone: any short segments, long segments of filler bytes, and
\* blocking reads that find no byte
NextCmd ==
    \/ K230CmdStart
    \/ K230CmdAck
    \/ K230CmdFirst
    \/ K230CmdBody
    \/ K230CmdBodyLong
    \/ K230CmdHandle
    \/ K230Wait

SpecCmd == Init /\ [][NextCmd]_vars

\* K230_Init alone, with a peer that goes on delivering bytes
NextInit ==
    \/ K230InitStart
    \/ K230InitRead
    \/ K230Wait

FairSpecInit == Init /\ [][NextInit]_vars /\ WF_vars(K230InitRead)

(***************************************************************************)
(* Claims about the frame synchronizer (specification Spec)                *)
(***************************************************************************)
\* C1: feeding 0xAA 0xAA xh xl yh yl chk 0xFF 0xFF with chk = (xh+xl+yh+yl) mod 256
\* to UART_0_rx_DataFrame from the initial state leaves target_x = (xh<<8)|xl and
\* target_y = (yh<<8)|yl after the last byte.
C1_ValidFrameCommits ==
    (phase = "done" /\ nprefix = 0 /\ FrameValid(frame))
        => (target_x = FrameX(frame) /\ target_y = FrameY(frame))

\* C2: while and after a frame whose checksum byte differs from
\* (xh+xl+yh+yl) mod 256 is fed, from any reachable synchronizer state, no write
\* to target_x/target_y occurs and the previously committed coordinate is unchanged.
C2_CorruptFrameNoCommit ==
    (phase \in {"frame", "done"} /\ ~FrameValid(frame))
        => (~wrote /\ << target_x, target_y >> = prev_target)

\* C3: after any partial or garbled byte prefix, a fresh complete valid frame
\* leaves the target equal to exactly that frame's coordinate.
C3_Resynchronizes ==
    (phase = "done" /\ nprefix > 0 /\ FrameValid(frame))
        => << target_x, target_y >> = << FrameX(frame), FrameY(frame) >>

\* C7: when a terminator marker (second consecutive 0xFF) is processed, the
\* coordinate is committed if and only if the sum modulo 256 of buffer positions
\* 2..5 equals the byte at position 6; on commit x = (buffer[2]<<8)|buffer[3] and
\* y = (buffer[4]<<8)|buffer[5].
C7_CommitIffChecksumMod256 ==
    last_step.branch = "term" =>
        /\ last_step.commit <=>
              ((rx_order[2] + rx_order[3] + rx_order[4] + rx_order[5]) % 256 = rx_order[6])
        /\ last_step.commit =>
              /\ target_x = rx_order[2] * 256 + rx_order[3]
              /\ target_y = rx_order[4] * 256 + rx_order[5]

(***************************************************************************)
(* Claims about the servo mapper (specification SpecServo)                 *)
(***************************************************************************)
IsWrite(e) == e.ev = "write"

\* C4: every duty value written to the PWM compare registers of either axis, by
\* Servo_Init, Set_Servo_Angle or Update_Servo_Position, for any angle, any
\* coordinates and any PID state, lies in the safe range [24, 96].
C4_DutyInSafeRange ==
    /\ \A i \in 1..Len(hw_log) : IsWrite(hw_log[i]) => hw_log[i].val \in 24..96
    /\ cc0 \in {0} \cup 24..96
    /\ cc1 \in {0} \cup 24..96

\* an Update_Servo_Position call wrote both channels, X held at the lower duty
\* bound by the angle clamp, after the PID integral had moved
C4_Witness ==
    /\ Len(hw_log) = 6
    /\ IsWrite(hw_log[2]) /\ hw_log[2].val = 24 /\ cc0 = 24
    /\ IsWrite(hw_log[5]) /\ hw_log[5].val > 24 /\ cc1 = hw_log[5].val
    /\ pid_x.integral # 0

\* C5: in Set_Servo_Angle the safety clamp Servo_Limitation is applied to an
\* axis's duty value before that value is written to the timer, so that the
\* value written to hardware is the clamped value: within one call, every write
\* to a compare register comes after the call's Servo_Limitation.
C5_ClampBeforeWrite ==
    \A i \in 1..Len(hw_log) :
        IsWrite(hw_log[i]) /\ (\E c \in 1..(i - 1) : hw_log[c].ev = "call")
            => \E j \in 1..(i - 1) :
                  /\ hw_log[j].ev = "limit"
                  /\ \A k \in (j + 1)..(i - 1) : hw_log[k].ev # "call"

(***************************************************************************)
(* Claims about Angle_To_PWM (specification SpecPWM)                       *)
(***************************************************************************)
\* C13: for every angle and each axis calibration, Angle_To_PWM returns the
\* nearest integer to 24 + (a - min_angle)*(96 - 24)/(max_angle - min_angle)
\* where a is the angle clamped into [min_angle, max_angle]; min_angle yields 24,
\* max_angle yields 96, every angle below min_angle yields 24 and every angle
\* above max_angle yields 96.
C13_NearestDuty ==
    fn_call.f = "Angle_To_PWM" =>
        LET lo  == AxisMin(fn_call.in[1])
            hi  == AxisMax(fn_call.in[1])
            ang == fn_call.in[2]
            a   == IF ang < lo THEN lo ELSE IF ang > hi THEN hi ELSE ang
            \* exact duty is q / (hi - lo)
            q   == 24 * (hi - lo) + (a - lo) * (96 - 24)
            d   == fn_call.out * (hi - lo) - q
        IN  /\ 2 * d <= hi - lo /\ -2 * d <= hi - lo
            /\ ang <= lo => fn_call.out = 24
            /\ ang >= hi => fn_call.out = 96

\* an angle of axis 2 strictly inside the range whose exact duty lies half-way
\* between two integers, and the upper one was returned
C13_Witness ==
    /\ fn_call.f = "Angle_To_PWM"
    /\ fn_call.in[1] = 2
    /\ fn_call.in[2] > SERVO2_MIN_ANGLE /\ fn_call.in[2] < SERVO2_MAX_ANGLE
    /\ 2 * (24 * (SERVO2_MAX_ANGLE - SERVO2_MIN_ANGLE)
            + (fn_call.in[2] - SERVO2_MIN_ANGLE) * (96 - 24))
         = (2 * fn_call.out - 1) * (SERVO2_MAX_ANGLE - SERVO2_MIN_ANGLE)

(***************************************************************************)
(* Claims about the PID controller (specification FairSpecPID)             *)
(***************************************************************************)
InLimits(v, pid) == pid.output_min <= v /\ v <= pid.output_max

\* C6: for a controller initialised with output_min <= output_max, after every
\* PID_Calculate call both integral and output lie in [output_min, output_max]
\* and the returned value equals pid->output.
C6_IntegralAndOutputBounded ==
    (pid_ret.called /\ pid_x.output_min <= pid_x.output_max)
        => /\ InLimits(pid_x.integral, pid_x)
           /\ InLimits(pid_x.output, pid_x)
           /\ pid_ret.val = pid_x.output

\* a call with an error above output_max: the integral and the output were both
\* cut back to output_max
C6_Witness ==
    /\ pid_ret.called
    /\ pid_x.output_min < pid_x.output_max
    /\ pid_x.error > pid_x.output_max
    /\ pid_x.integral = pid_x.output_max
    /\ pid_x.output = pid_x.output_max
    /\ pid_ret.val = pid_x.output_max

C11_ZeroErrorTickIdempotent ==
    (zticks > 0 /\ pid_x.output_min <= 0 /\ 0 <= pid_x.output_max)
        => /\ pid_ret.called /\ pid_ret.val = 0
           /\ pid_x.integral = 0
           /\ pid_x.error_last = 0
           /\ pid_x.output = 0

\* three zero-error ticks in a row, target = current = 2, on a controller with all
\* three gains nonzero and limits on both sides of 0
C11_Witness ==
    /\ zticks = MaxZeroTicks
    /\ pid_call.target = 2 /\ pid_call.current = 2
    /\ pid_x.Kp > 0 /\ pid_x.Ki > 0 /\ pid_x.Kd > 0
    /\ pid_x.output_min < 0 /\ 0 < pid_x.output_max
    /\ pid_ret.called /\ pid_ret.val = 0

\* the clamp of the reference computation: the upper limit, then the lower limit
RefClamp(v, lo, hi) ==
    LET u == IF v > hi THEN hi ELSE v
    IN  IF u < lo THEN lo ELSE u

\* C12: each PID_Calculate(target, current) call computes error = target -
\* current, adds it to the integral and clamps the integral, takes derivative =
\* error - (error of the previous call), returns clamp(Kp*error + Ki*(clamped
\* integral) + Kd*derivative) to [output_min, output_max], and stores error as
\* the new last error, for every input and prior state.
C12_MatchesReference ==
    [][pid_call'.n # pid_call.n =>
          LET e == (pid_call'.target - pid_call'.current) * SCALE
              i == RefClamp(pid_x.integral + e, pid_x.output_min, pid_x.output_max)
              d == e - pid_x.error_last
              o == RefClamp((pid_x.Kp * e + pid_x.Ki * i + pid_x.Kd * d) \div GAIN_DEN,
                            pid_x.output_min, pid_x.output_max)
          IN  /\ pid_ret'.called /\ pid_ret'.val = o
              /\ pid_x'.error = e
              /\ pid_x'.integral = i
              /\ pid_x'.output = o
              /\ pid_x'.error_last = e
              /\ pid_x'.Kp = pid_x.Kp /\ pid_x'.Ki = pid_x.Ki /\ pid_x'.Kd = pid_x.Kd
              /\ pid_x'.output_min = pid_x.output_min
              /\ pid_x'.output_max = pid_x.output_max]_vars

\* a call with a nonzero derivative and an integral that was cut back, whose
\* output lies strictly inside the limits
C12_Witness ==
    /\ pid_ret.called
    /\ pid_x.Kd > 0 /\ pid_x.Ki > 0
    /\ pid_x.error < 0
    /\ pid_x.integral = pid_x.output_min
    /\ pid_x.output_min < pid_x.output /\ pid_x.output < pid_x.output_max
    /\ pid_x.error_last = pid_x.error

(***************************************************************************)
(* Claims about the shared coordinate (specification SpecRace)             *)
(***************************************************************************)
\* coordinate in force after g commits (globals are zero before the first)
LogAt(g) == IF g = 0 THEN << 0, 0 >> ELSE commit_log[g]

\* C8 as stated: the pair (x, y) the control tick obtains is the coordinate of
\* one single fully validated frame, the latest one committed at the time of
\* the read, never x of one frame combined with y of another.
C8_SnapshotIsOneFrame ==
    mread = {"x", "y"} =>
        /\ gen_x = gen_y
        /\ << snap_x, snap_y >> = LogAt(gen_x)

\* C8 amended: each value read is the corresponding field of the latest frame
\* committed when that field was read; the two fields may belong to two frames.
C8_FieldwiseLatest ==
    /\ "x" \in mread => snap_x = LogAt(gen_x)[1]
    /\ "y" \in mread => snap_y = LogAt(gen_y)[2]

\* both reads done with a frame committed in between: the pair obtained is the
\* coordinate of no frame
C8_Witness ==
    /\ mread = {"x", "y"}
    /\ 0 < gen_x /\ gen_x < gen_y
    /\ \A g \in 0..Len(commit_log) : << snap_x, snap_y >> # LogAt(g)

(***************************************************************************)
(* Claims about the blocking exchange (specification SpecExchange)         *)
(***************************************************************************)
\* C9: during every blocking read performed by K230_Init or K230_cmd the
\* receive interrupt is not enabled, so no byte of the transport is consumed by
\* the Frame Synchronizer while an exchange is in progress.
C9_ExchangeExcludesRxInterrupt ==
    /\ xpc \in BlockingReads => ~irq_en
    /\ ~isr_stole

(***************************************************************************)
(* Claims about K230_cmd (specification SpecCmd)                           *)
(***************************************************************************)
IsHandlerEv(e) == e[1] = "handler"
IsNonzeroReturn(e) == e[1] = "handler" /\ e[2] # 0
IsZeroReturn(e) == e[1] = "handler" /\ e[2] = 0
IsStopTx(e) == e = TxEv(STOP_CMD)
CmdReading == {"cmd_ack", "cmd_first", "cmd_body"}
CmdCompleted == xcall = "cmd" /\ xpc = "idle"

\* the bytes s[k-2], s[k-1], s[k] are the terminator 0x01 0xFE 0xFF
HasTermAt(s, k) ==
    /\ k >= 3 /\ k <= Len(s)
    /\ s[k - 2] = 1 /\ s[k - 1] = 254 /\ s[k] = 255

\* C14: the handler is invoked exactly once per completely received
\* (terminated) response segment and never on a partial segment; a nonzero
\* return causes another segment to be read and a zero return ends the loop, so
\* the number of invocations is one plus the number of nonzero returns before
\* the first zero return.
C14_HandlerOncePerSegment ==
    xcall = "cmd" =>
        /\ Len(SelectSeq(xlog, IsHandlerEv)) = xhandled
        /\ xsegs = xhandled + (IF xpc = "cmd_handle" THEN 1 ELSE 0)
        /\ xpc # "idle" =>
              /\ Len(SelectSeq(xlog, IsZeroReturn)) = 0
              /\ xhandled = Len(SelectSeq(xlog, IsNonzeroReturn))
        /\ xpc = "idle" =>
              /\ Len(SelectSeq(xlog, IsZeroReturn)) = 1
              /\ xhandled = 1 + Len(SelectSeq(xlog, IsNonzeroReturn))
              /\ \A k \in 1..Len(xlog) :
                    IsZeroReturn(xlog[k]) =>
                        \A j \in (k + 1)..Len(xlog) : ~IsHandlerEv(xlog[j])

\* a completed call whose handler was invoked twice: it returned 2, a second
\* segment was read, then it returned 0
C14_Witness ==
    /\ CmdCompleted
    /\ xhandled = 2 /\ xsegs = 2
    /\ xlog[2] = HandlerEv(2)
    /\ xlog[3] = HandlerEv(0)

\* C15 as stated: in every completed K230_cmd exchange the command byte is the
\* first byte transmitted, the byte STOP_CMD (0x1C) is transmitted exactly once,
\* after the last handler invocation returned zero, and never before or between
\* handler invocations.
C15_StopExactlyOnce ==
    xcall = "cmd" =>
        /\ Len(xlog) >= 1 /\ xlog[1][1] = "tx" /\ xlog[1][2] \in CmdBytes
        /\ xpc # "idle" => Len(SelectSeq(xlog, IsStopTx)) = 0
        /\ xpc = "idle" =>
              /\ Len(SelectSeq(xlog, IsStopTx)) = 1
              /\ xlog[Len(xlog)] = TxEv(STOP_CMD)
              /\ xlog[Len(xlog) - 1] = HandlerEv(0)

\* C15 amended: the same for a command byte other than STOP_CMD; the command
\* byte is always the first byte transmitted and the last transmission of a
\* completed exchange is always STOP_CMD, right after the handler returned zero.
C15_StopOnceAfterCommand ==
    xcall = "cmd" =>
        /\ Len(xlog) >= 1 /\ xlog[1][1] = "tx" /\ xlog[1][2] \in CmdBytes
        /\ \A k \in 2..Len(xlog) : IsStopTx(xlog[k]) => (k = Len(xlog) /\ xpc = "idle")
        /\ xpc = "idle" =>
              /\ Len(xlog) >= 3
              /\ xlog[Len(xlog)] = TxEv(STOP_CMD)
              /\ xlog[Len(xlog) - 1] = HandlerEv(0)
        /\ xlog[1][2] # STOP_CMD =>
              Len(SelectSeq(xlog, IsStopTx)) = (IF xpc = "idle" THEN 1 ELSE 0)

\* a completed exchange of two segments for the command 29: the command byte,
\* two handler invocations, then STOP_CMD
C15_Witness ==
    /\ CmdCompleted
    /\ xlog = << TxEv(29), HandlerEv(1), HandlerEv(0), TxEv(STOP_CMD) >>

\* C16: a response segment ends at, and only at, the first position where the
\* three most recently received bytes of that segment (the discarded byte not
\* counted) are 0x01, 0xFE, 0xFF in this order; the window is cleared at the
\* start of every segment, so no terminator is recognised across two segments.
C16_SegmentEndsAtFirstTerminator ==
    xcall = "cmd" =>
        /\ xpc = "cmd_handle" =>
              /\ HasTermAt(xseg, Len(xseg))
              /\ \A k \in 1..(Len(xseg) - 1) : ~HasTermAt(xseg, k)
        /\ xpc = "cmd_body" =>
              \A k \in 1..Len(xseg) : ~HasTermAt(xseg, k)

\* the second segment of a call begins with 0xFE 0xFF, right after the 0x01
\* 0xFE 0xFF that ended the first one, and is still being read
C16_Witness ==
    /\ xcall = "cmd"
    /\ xhandled = 1
    /\ xpc = "cmd_body"
    /\ Len(xseg) >= 2 /\ xseg[1] = 254 /\ xseg[2] = 255

\* C17: every write of a received byte lands at an index inside the 128-byte
\* buffer (0..127); no write ever goes past the end of the buffer.
C17_WritesInsideBuffer ==
    /\ ~xoverrun
    /\ DOMAIN xdata \subseteq 0..127

\* C18: K230_cmd has no timeout: while the peer delivers no byte, or has not
\* completed the terminator of the current segment, K230_cmd does not invoke
\* the handler for that segment, does not transmit STOP_CMD and does not return.
C18_NoTimeout ==
    [][(xcall = "cmd" /\ xpc \in CmdReading) =>
          /\ xpc' # "idle"
          /\ xlog' = xlog
          /\ xhandled' = xhandled
          /\ xreads' = xreads => xpc' = xpc
          /\ xpc' = "cmd_handle" =>
                (xreads' = xreads + 1 /\ HasTermAt(xseg', Len(xseg')))]_vars

\* a read of the inner loop has polled MaxWait times in vain, with the
\* terminator of the segment begun (0x01 0xFE) and not completed
C18_Witness ==
    /\ xcall = "cmd"
    /\ xpc = "cmd_body"
    /\ xwait = MaxWait
    /\ Len(xseg) >= 2
    /\ xseg[Len(xseg) - 1] = 1 /\ xseg[Len(xseg)] = 254
    /\ xlog = << TxEv(29) >>

(***************************************************************************)
(* Claims about K230_Init (specification FairSpecInit)                     *)
(***************************************************************************)
\* C19: K230_Init returns 1 if and only if 0x1B occurs among the first 255
\* bytes received after sending SELF_CHECK_CMD; otherwise it returns 0 after
\* reading exactly 255 bytes; it never reads more than 255 bytes and never
\* retries indefinitely.
C19_HandshakeBounded ==
    /\ [](xcall = "init" =>
            /\ xreads <= 255
            /\ xlog = << TxEv(26) >>
            /\ xpc = "init_read" => (xret = -1 /\ xacks = 0)
            /\ xpc = "idle" =>
                  /\ xret \in {0, 1}
                  /\ xret = 1 <=> xacks > 0
                  /\ xret = 0 => xreads = 255)
    /\ ((xcall = "init" /\ xpc = "init_read") ~> (xpc = "idle"))

\* the handshake failed: 255 bytes were read, none of them 0x1B
C19_Witness ==
    /\ xcall = "init" /\ xpc = "idle"
    /\ xret = 0
    /\ xreads = 255 /\ xacks = 0

\* the handshake succeeded on the 255th byte
C19_WitnessLastChance ==
    /\ xcall = "init" /\ xpc = "idle"
    /\ xret = 1
    /\ xreads = 255 /\ xacks = 1

(***************************************************************************)
(* Claims about the write cursor (specification SpecStream)                *)
(***************************************************************************)
\* C20: in every reachable state of the Frame Synchronizer, for every input
\* byte sequence, the write cursor pt satisfies 0 <= pt < 9, so every buffer
\* write targets one of the 9 cells of the frame buffer.
C20_CursorInBuffer ==
    /\ pt \in 0..8
    /\ DOMAIN rx_order = 0..8

\* after MaxStream bytes cell 1 holds a byte stored after the cursor had run
\* through cell 8 and wrapped to 0, and the cursor stands at 2 again
C20_Witness ==
    /\ nprefix = MaxStream
    /\ rx_order[0] = 170 /\ rx_order[1] = 0
    /\ pt = 2
    /\ last_step.branch = "store"

(***************************************************************************)
(* Claims about frames in a free byte stream (specification SpecStream)    *)
(***************************************************************************)
\* C21: a malformed oversized frame, a sync marker followed by more than five
\* bytes before the terminator marker, is discarded: it never causes a write to
\* target_x/target_y.
C21_OversizedFrameDiscarded ==
    (fobs.since >= 0 /\ last_step.branch = "term" /\ fobs.terms = 1
        /\ fobs.since - 2 > 5)
        => ~last_step.commit

\* C22: between two consecutive sync markers (and between start and the first
\* sync marker) target_x/target_y are assigned at most once, whatever bytes
\* follow the frame's terminator.
C22_AtMostOneWritePerFrame ==
    fobs.commits <= 1

\* C23: a terminator marker commits only if a sync marker was received since
\* the previous terminator marker (or since start); in particular two
\* consecutive 0xFF received before any sync marker do not write the target.
C23_CommitNeedsSync ==
    last_step.commit => (fobs.since >= 0 /\ fobs.terms = 1)

\* C30: every step of the Frame Synchronizer changes only what its branch
\* names: a sync step sets pt = 2 and buffer[0] = buffer[1] = 0xAA and leaves
\* the target and buffer[2..8] unchanged; a terminator step leaves pt and the
\* whole buffer unchanged; any other byte changes exactly the one buffer cell at
\* the old pt, advances pt by one modulo 9 and leaves the target unchanged; in
\* all three cases last_data becomes the received byte.
C30_StepFrame ==
    [][nprefix' # nprefix =>
          LET b == rx_data'
          IN  /\ last_data' = b
              /\ IF last_data = 170 /\ b = 170
                   THEN /\ pt' = 2
                        /\ rx_order'[0] = 170 /\ rx_order'[1] = 170
                        /\ \A i \in 2..8 : rx_order'[i] = rx_order[i]
                        /\ target_x' = target_x /\ target_y' = target_y
                        /\ last_step'.branch = "sync"
                   ELSE IF last_data = 255 /\ b = 255
                     THEN /\ pt' = pt
                          /\ rx_order' = rx_order
                          /\ last_step'.branch = "term"
                     ELSE /\ \A i \in 0..8 : i # pt => rx_order'[i] = rx_order[i]
                          /\ rx_order'[pt] = b
                          /\ pt' = (pt + 1) % 9
                          /\ target_x' = target_x /\ target_y' = target_y
                          /\ last_step'.branch = "store"]_vars

\* a sync step taken with a nonzero byte behind the markers, which it kept
C30_Witness ==
    /\ last_step.branch = "sync"
    /\ pt = 2
    /\ rx_order[0] = 170 /\ rx_order[1] = 170
    /\ \E i \in 2..8 : rx_order[i] # 0

(***************************************************************************)
(* Claims about Update_Servo_Position (specification SpecUpdate)           *)
(***************************************************************************)
\* the affine map of a pixel coordinate in [0, max_coord] onto [lo, hi], with
\* the result held inside [lo, hi]
AffineAngle(coord, max_coord, lo, hi) ==
    LET a == lo + (coord * (hi - lo)) \div max_coord
    IN  IF a < lo THEN lo ELSE IF a > hi THEN hi ELSE a

\* C24: in every Update_Servo_Position(x, y) call the angle passed to the servo
\* setter of each axis equals Map_Coordinate_To_Angle(coordinate) +
\* PID_Calculate(target = screen centre of that axis, current = coordinate): X
\* uses pixel range [0, 640], angle range [-50.4, 50.4] and centre 320; Y uses
\* [0, 480], [-16.5, 16.5] and centre 240; and both axes' results go through
\* Set_Servo_Angle before any duty is written.
C24_CommandedAngle ==
    fn_call.f = "Update_Servo_Position" =>
        LET x == fn_call.in[1]
            y == fn_call.in[2]
        IN  /\ pid_call.target = 320 /\ pid_call.current = x
            /\ pid_x.error = (320 - x) * SCALE
            /\ pid_y.error = (240 - y) * SCALE
            /\ pid_ret.called /\ pid_ret.val = pid_y.output
            /\ fn_call.out[1] = AffineAngle(x, 640, -40320, 40320) + pid_x.output
            /\ fn_call.out[2] = AffineAngle(y, 480, -13200, 13200) + pid_y.output
            /\ hw_log = << CallEv(1),
                           WriteEv(0, Angle_To_PWM(fn_call.out[1], 7200, 136800)),
                           LimitEv,
                           CallEv(2),
                           WriteEv(1, Angle_To_PWM(fn_call.out[2], 10800, 205200)),
                           LimitEv >>
            /\ cc0 = hw_log[2].val /\ cc1 = hw_log[5].val

\* a call at x = 319, y = 0 on initialised controllers: one pixel left of the
\* centre, the X angle is the mapped angle plus a positive PID output
C24_Witness ==
    /\ fn_call.f = "Update_Servo_Position"
    /\ fn_call.in = << 319, 0 >>
    /\ pid_x.Kp > 0
    /\ pid_x.output > 0
    /\ fn_call.out[1] = 319 * 126 - 40320 + pid_x.output
    /\ fn_call.out[2] = pid_y.output - 13200


(***************************************************************************)
(* End to end: one frame from the peer, then one control tick.  The peer   *)
(* sends well-formed frames (checksum = sum of the four payload bytes      *)
(* modulo 256) whose coordinates fit in the low byte; the main context     *)
(* reads the target and runs Update_Servo_Position on it.                  *)
(***************************************************************************)
ScenarioCoords == {100, 150, 200}

PeerSendScenario ==
    /\ phase \in {"prefix", "done"}
    /\ nsent < 1
    /\ \E x \in ScenarioCoords, y \in ScenarioCoords :
          frame' = MakeFrame(0, x, 0, y, FrameChecksum(0, x, 0, y))
    /\ phase' = "frame"
    /\ pos' = 1
    /\ wrote' = FALSE
    /\ prev_target' = << target_x, target_y >>
    /\ nsent' = nsent + 1
    /\ UNCHANGED << nprefix, mread, snap_x, snap_y, gen_x, gen_y, commit_log >>
    /\ UNCHANGED << uartVars, servoVars, pidVars >>
    /\ UNCHANGED << xchgVars, fn_call >>
    /\ UNCHANGED << gimbalVars, parseVars >>

NextScenario ==
    \/ PeerSendScenario
    \/ RxFrame
    \/ DoPIDInit
    \/ MainReadX
    \/ MainReadY
    \/ ControlTick

SpecScenario == Init /\ [][NextScenario]_vars

\* the frame AA AA 00 C8 00 96 5E FF FF
ScenarioFrame == << 170, 170, 0, 200, 0, 150, 94, 255, 255 >>

\* C25: the bytes AA AA 00 C8 00 96 5E FF FF fed to the synchronizer from its
\* initial state commit the target (200, 150); a control tick that follows,
\* on PID controllers with zero integral and zero last error, commands on the
\* X axis the mapped angle for x = 200 plus the PID output for the error
\* 320 - 200, and the duty written is the conversion of that angle clamped
\* into [SERVO1_MIN_ANGLE, SERVO1_MAX_ANGLE].
C25_EndToEnd ==
    /\ [](frame = ScenarioFrame /\ phase = "done"
            => target_x = 200 /\ target_y = 150)
    /\ [][ ( /\ frame = ScenarioFrame /\ phase = "done"
             /\ mread = {"x", "y"} /\ mread' = {}
             /\ gen_x = Len(commit_log) /\ gen_y = Len(commit_log)
             /\ pid_x.integral = 0 /\ pid_x.error_last = 0 )
           => ( /\ fn_call'.f = "Update_Servo_Position"
                /\ fn_call'.in = << 200, 150 >>
                /\ pid_x'.error = (SCREEN_CENTER_X - 200) * SCALE
                /\ fn_call'.out[1] =
                      Map_Coordinate_To_Angle(200, 0, 640, SERVO_X_MIN_ANGLE, SERVO_X_MAX_ANGLE)
                      + PID_Calculate(pid_x, SCREEN_CENTER_X, 200).ret
                /\ cc0' = Angle_To_PWM(Clamp_Angle(fn_call'.out[1], SERVO1_MIN_ANGLE,
                                                   SERVO1_MAX_ANGLE),
                                       SERVO1_MIN_ANGLE, SERVO1_MAX_ANGLE) ) ]_vars


(***************************************************************************)
(* Map_Coordinate_To_Angle on its own: every coordinate of a grid that     *)
(* reaches past both ends of the coordinate range, for several ranges      *)
(***************************************************************************)
\* Bound of the model: coordinates tried beyond each end of the coordinate range
MapMargin == 5

\* ranges handed to the mapper: << min_coord, max_coord, min_angle, max_angle >>;
\* the first two are the ones Update_Servo_Position uses
MapConfigs == { << 0, 640, SERVO_X_MIN_ANGLE, SERVO_X_MAX_ANGLE >>,
                << 0, 480, SERVO_Y_MIN_ANGLE, SERVO_Y_MAX_ANGLE >>,
                << 100, 300, SERVO1_MIN_ANGLE, SERVO1_MAX_ANGLE >>,
                << 10, 17, 0, SCALE >> }

DoMapCoordinate ==
    /\ fn_call.f = "none"
    /\ \E cfg \in MapConfigs :
         \E coord \in (cfg[1] - MapMargin)..(cfg[2] + MapMargin) :
            fn_call' = [f |-> "Map_Coordinate_To_Angle", in |-> << cfg, coord >>,
                        out |-> Map_Coordinate_To_Angle(coord, cfg[1], cfg[2], cfg[3], cfg[4])]
    /\ UNCHANGED << uartVars, srcVars, mainVars, servoVars, pidVars, xchgVars >>
    /\ UNCHANGED << gimbalVars, parseVars >>

NextMap == DoMapCoordinate

SpecMap == Init /\ [][NextMap]_vars

\* C26: Map_Coordinate_To_Angle clamps and never rejects: for every coordinate,
\* inside or outside [min_coord, max_coord], the result lies in
\* [min_angle, max_angle]; min_coord maps to min_angle and max_coord to
\* max_angle; inside the range the result is the affine interpolation between
\* them (to the resolution of the fixed-point angle), and outside it the
\* nearer end.
C26_MapClamps ==
    fn_call.f = "Map_Coordinate_To_Angle" =>
        LET min_coord == fn_call.in[1][1]
            max_coord == fn_call.in[1][2]
            min_angle == fn_call.in[1][3]
            max_angle == fn_call.in[1][4]
            coord     == fn_call.in[2]
            r         == fn_call.out
            \* exact angle above min_angle is q / (max_coord - min_coord)
            q         == (coord - min_coord) * (max_angle - min_angle)
            d         == q - (r - min_angle) * (max_coord - min_coord)
        IN  /\ min_angle <= r /\ r <= max_angle
            /\ coord = min_coord => r = min_angle
            /\ coord = max_coord => r = max_angle
            /\ (min_coord <= coord /\ coord <= max_coord)
                  => (0 <= d /\ d < max_coord - min_coord)
            /\ coord < min_coord => r = min_angle
            /\ coord > max_coord => r = max_angle

\* a coordinate right of the X range: the straight line gives an angle above
\* SERVO_X_MAX_ANGLE and the mapper returned SERVO_X_MAX_ANGLE
C26_Witness ==
    /\ fn_call.f = "Map_Coordinate_To_Angle"
    /\ fn_call.in[1] = << 0, 640, SERVO_X_MIN_ANGLE, SERVO_X_MAX_ANGLE >>
    /\ fn_call.in[2] > 640
    /\ fn_call.out = SERVO_X_MAX_ANGLE


(***************************************************************************)
(* gimbal_controller: the angle-setting interface.  Angles in SCALE units. *)
(***************************************************************************)
PAN_MIN_ANGLE  == -90 * SCALE
PAN_MAX_ANGLE  == 90 * SCALE
TILT_MIN_ANGLE == -30 * SCALE
TILT_MAX_ANGLE == 30 * SCALE

\* angles handed to gimbal_set_angle: both ends of each range, the nearest
\* angles outside, and angles inside
GimbalPans  == { PAN_MIN_ANGLE - 1, PAN_MIN_ANGLE, 0, 45 * SCALE,
                 PAN_MAX_ANGLE, PAN_MAX_ANGLE + 1 }
GimbalTilts == { TILT_MIN_ANGLE - 1, TILT_MIN_ANGLE, 0, 15 * SCALE,
                 TILT_MAX_ANGLE, TILT_MAX_ANGLE + 1 }

\* gimbal_set_angle that tests only the pan angle
gimbal_set_angle_PanOnly(ctrl, pan_angle, tilt_angle) ==
    IF ~ctrl.initialized
      THEN [ctrl |-> ctrl, ret |-> FALSE]
      ELSE IF pan_angle < PAN_MIN_ANGLE \/ pan_angle > PAN_MAX_ANGLE
        THEN [ctrl |-> ctrl, ret |-> FALSE]
        ELSE [ctrl |-> [ctrl EXCEPT !.pan_angle = pan_angle, !.tilt_angle = tilt_angle],
              ret |-> TRUE]

\* bool gimbal_set_angle(float pan_angle, float tilt_angle)
gimbal_set_angle(ctrl, pan_angle, tilt_angle) ==
    IF ~ctrl.initialized
      THEN [ctrl |-> ctrl, ret |-> FALSE]
      ELSE IF pan_angle < PAN_MIN_ANGLE \/ pan_angle > PAN_MAX_ANGLE
        THEN [ctrl |-> ctrl, ret |-> FALSE]
        ELSE IF tilt_angle < TILT_MIN_ANGLE \/ tilt_angle > TILT_MAX_ANGLE
          THEN [ctrl |-> ctrl, ret |-> FALSE]
          ELSE [ctrl |-> [ctrl EXCEPT !.pan_angle = pan_angle,
                                      !.tilt_angle = tilt_angle],
                ret |-> TRUE]

\* what a caller's float holds after gimbal_get_angle: written with the stored
\* angle, or left alone when the pointer is NULL
GimbalOut(is_null, angle) ==
    IF is_null THEN [written |-> FALSE, val |-> 0] ELSE [written |-> TRUE, val |-> angle]

\* bool gimbal_init(void)
GimbalInit ==
    /\ gimbal_ctrl' = [gimbal_ctrl EXCEPT !.pan_angle = 0, !.tilt_angle = 0,
                                          !.initialized = TRUE]
    /\ gimbal_seq' = 1 - gimbal_seq
    /\ fn_call' = [f |-> "gimbal_init", in |-> << >>, out |-> TRUE]
    /\ UNCHANGED << uartVars, srcVars, mainVars, servoVars, pidVars, xchgVars >>
    /\ UNCHANGED parseVars

\* gimbal_deinit that also clears the stored angles
gimbal_deinit_ClearsAngles(ctrl) ==
    [ctrl EXCEPT !.initialized = FALSE, !.pan_angle = 0, !.tilt_angle = 0]

\* void gimbal_deinit(void)
gimbal_deinit(ctrl) == [ctrl EXCEPT !.initialized = FALSE]

GimbalDeinit ==
    /\ gimbal_ctrl' = gimbal_deinit(gimbal_ctrl)
    /\ gimbal_seq' = 1 - gimbal_seq
    /\ fn_call' = [f |-> "gimbal_deinit", in |-> << >>, out |-> 0]
    /\ UNCHANGED << uartVars, srcVars, mainVars, servoVars, pidVars, xchgVars >>
    /\ UNCHANGED parseVars

GimbalSetAngle ==
    /\ \E pan \in GimbalPans, tilt \in GimbalTilts :
          LET r == gimbal_set_angle(gimbal_ctrl, pan, tilt)
          IN  /\ gimbal_ctrl' = r.ctrl
              /\ fn_call' = [f |-> "gimbal_set_angle", in |-> << pan, tilt >>,
                             out |-> r.ret]
    /\ gimbal_seq' = 1 - gimbal_seq
    /\ UNCHANGED << uartVars, srcVars, mainVars, servoVars, pidVars, xchgVars >>
    /\ UNCHANGED parseVars

\* void gimbal_get_angle(float *pan_angle, float *tilt_angle), either pointer
\* NULL or not
GimbalGetAngle ==
    /\ \E pan_null \in BOOLEAN, tilt_null \in BOOLEAN :
          fn_call' = [f |-> "gimbal_get_angle", in |-> << pan_null, tilt_null >>,
                      out |-> << GimbalOut(pan_null, gimbal_ctrl.pan_angle),
                                 GimbalOut(tilt_null, gimbal_ctrl.tilt_angle) >>]
    /\ gimbal_seq' = 1 - gimbal_seq
    /\ UNCHANGED gimbal_ctrl
    /\ UNCHANGED << uartVars, srcVars, mainVars, servoVars, pidVars, xchgVars >>
    /\ UNCHANGED parseVars

NextGimbal ==
    \/ GimbalInit
    \/ GimbalDeinit
    \/ GimbalSetAngle
    \/ GimbalGetAngle

SpecGimbal == Init /\ [][NextGimbal]_vars

\* C27: gimbal_set_angle returns false and leaves both stored angles unchanged
\* whenever pan is outside [-90, 90] or tilt is outside [-30, 30], even if the
\* other axis is in range; on an initialised controller it returns true exactly
\* when both are in range, and then stores both angles; and a gimbal_get_angle
\* that follows a successful gimbal_set_angle returns the pair that was set.
C27_SetAngleRejects ==
    [][ /\ ( gimbal_seq' # gimbal_seq /\ fn_call'.f = "gimbal_set_angle" ) =>
             LET pan     == fn_call'.in[1]
                 tilt    == fn_call'.in[2]
                 pan_ok  == -90 * SCALE <= pan /\ pan <= 90 * SCALE
                 tilt_ok == -30 * SCALE <= tilt /\ tilt <= 30 * SCALE
             IN  /\ ~(pan_ok /\ tilt_ok)
                      => /\ fn_call'.out = FALSE
                         /\ gimbal_ctrl'.pan_angle = gimbal_ctrl.pan_angle
                         /\ gimbal_ctrl'.tilt_angle = gimbal_ctrl.tilt_angle
                 /\ gimbal_ctrl.initialized
                      => /\ fn_call'.out = (pan_ok /\ tilt_ok)
                         /\ (pan_ok /\ tilt_ok)
                               => /\ gimbal_ctrl'.pan_angle = pan
                                  /\ gimbal_ctrl'.tilt_angle = tilt
        /\ ( /\ gimbal_seq' # gimbal_seq
             /\ fn_call.f = "gimbal_set_angle" /\ fn_call.out = TRUE
             /\ fn_call'.f = "gimbal_get_angle"
             /\ fn_call'.in = << FALSE, FALSE >> ) =>
               /\ fn_call'.out[1] = [written |-> TRUE, val |-> fn_call.in[1]]
               /\ fn_call'.out[2] = [written |-> TRUE, val |-> fn_call.in[2]]
      ]_vars

\* on an initialised controller holding (45, 15) degrees, the call
\* gimbal_set_angle(0, 30.00125) has returned false: pan in range, tilt just
\* outside, and the stored pair is still (45, 15)
C27_Witness ==
    /\ fn_call.f = "gimbal_set_angle"
    /\ fn_call.in = << 0, TILT_MAX_ANGLE + 1 >>
    /\ fn_call.out = FALSE
    /\ gimbal_ctrl.initialized
    /\ gimbal_ctrl.pan_angle = 45 * SCALE
    /\ gimbal_ctrl.tilt_angle = 15 * SCALE


(***************************************************************************)
(* The field accessors K230_parse_byte, K230_parse_int, K230_parse_float   *)
(* and K230_parse_string, called one after another by a handler on the     *)
(* buffer it was given.  The accessors do not test the cursor against the  *)
(* size of the buffer: a cell past the end holds whatever memory holds.    *)
(***************************************************************************)
\* Bounds of the model: cells of the buffer, and how far past its end the
\* first zero byte of memory may lie
ParseLen == 5
MaxBeyond == 1

\* bytes the buffer and the memory after it may hold
ParseBytes == {0, 127, 128, 255}

Accessors == {"K230_parse_byte", "K230_parse_int", "K230_parse_float",
              "K230_parse_string"}

\* data[k]: a cell of the buffer, or of the memory after it
ReadAt(data, k, beyond) == IF k \in DOMAIN data THEN data[k] ELSE beyond[k]

\* the cells index .. index + n - 1 that lie past the end of the buffer
CellsBeyond(data, index, n) == (index..(index + n - 1)) \ DOMAIN data

\* data[*index] | data[*index + 1] << 8 | data[*index + 2] << 16 | data[*index + 3] << 24
\* as a 32-bit pattern, held as its two 16-bit halves
Word32(data, index, beyond) ==
    [lo |-> ReadAt(data, index, beyond) + ReadAt(data, index + 1, beyond) * 256,
     hi |-> ReadAt(data, index + 2, beyond) + ReadAt(data, index + 3, beyond) * 256]

\* the int whose 32-bit pattern is w
AsInt32(w) == (IF w.hi >= 32768 THEN w.hi - 65536 ELSE w.hi) * 65536 + w.lo

\* K230_parse_int taking the first byte as the most significant one
K230_parse_int_BigEndian(data, index, beyond) ==
    [data |-> data, index |-> (index + 4) % 256,
     val |-> AsInt32([lo |-> ReadAt(data, index + 3, beyond)
                             + ReadAt(data, index + 2, beyond) * 256,
                      hi |-> ReadAt(data, index + 1, beyond)
                             + ReadAt(data, index, beyond) * 256])]

\* int K230_parse_int(uint8_t* data, uint8_t* index): the pattern as an int
K230_parse_int(data, index, beyond) ==
    [data |-> data, index |-> (index + 4) % 256,
     val |-> AsInt32(Word32(data, index, beyond))]

\* float K230_parse_float(uint8_t* data, uint8_t* index): the float whose
\* IEEE-754 pattern is the word read (union of uint32_t and float)
K230_parse_float(data, index, beyond) ==
    [data |-> data, index |-> (index + 4) % 256,
     val |-> [bits |-> Word32(data, index, beyond)]]

\* uint8_t K230_parse_byte(uint8_t* data, uint8_t* index)
K230_parse_byte(data, index, beyond) ==
    [data |-> data, index |-> (index + 1) % 256, val |-> ReadAt(data, index, beyond)]

\* the while loop of K230_parse_string: the first cell from index on that holds
\* 0, inside the buffer or, failing that, at nul_at in the memory after it
FirstZero(data, index, nul_at) ==
    LET zeros == { k \in DOMAIN data : k >= index /\ data[k] = 0 }
    IN  IF zeros = {} THEN nul_at
        ELSE CHOOSE k \in zeros : \A j \in zeros : k <= j

\* K230_parse_string that leaves the cursor on the terminator
K230_parse_string_OnTerminator(data, index, nul_at) ==
    LET length == (FirstZero(data, index, nul_at) - index) % 256
    IN  [data |-> data, index |-> (index + length) % 256,
         val |-> [start |-> index, length |-> length]]

\* const char* K230_parse_string(uint8_t* data, uint8_t* index): the pointer
\* data + *index, as the cell it points to and the bytes before the first 0
K230_parse_string(data, index, nul_at) ==
    LET length == (FirstZero(data, index, nul_at) - index) % 256
    IN  [data |-> data, index |-> (index + length + 1) % 256,
         val |-> [start |-> index, length |-> length]]

\* the handler is entered with a buffer and starts decoding at cell 0
HandlerEntry ==
    /\ parse_data = << >>
    /\ parse_data' \in [0..(ParseLen - 1) -> ParseBytes]
    /\ parse_index' = 0
    /\ fn_call' = [f |-> "handler", in |-> << >>, out |-> 0]
    /\ UNCHANGED << uartVars, srcVars, mainVars, servoVars, pidVars, xchgVars >>
    /\ UNCHANGED gimbalVars

\* the result r of an accessor called at the cursor
ParseStep(name, r) ==
    /\ parse_data' = r.data
    /\ parse_index' = r.index
    /\ fn_call' = [f |-> name, in |-> << parse_index >>, out |-> r.val]
    /\ UNCHANGED << uartVars, srcVars, mainVars, servoVars, pidVars, xchgVars >>
    /\ UNCHANGED gimbalVars

DoParseByte ==
    /\ parse_index \in DOMAIN parse_data
    /\ \E beyond \in [CellsBeyond(parse_data, parse_index, 1) -> ParseBytes] :
          ParseStep("K230_parse_byte", K230_parse_byte(parse_data, parse_index, beyond))

DoParseInt ==
    /\ parse_index \in DOMAIN parse_data
    /\ \E beyond \in [CellsBeyond(parse_data, parse_index, 4) -> ParseBytes] :
          ParseStep("K230_parse_int", K230_parse_int(parse_data, parse_index, beyond))

DoParseFloat ==
    /\ parse_index \in DOMAIN parse_data
    /\ \E beyond \in [CellsBeyond(parse_data, parse_index, 4) -> ParseBytes] :
          ParseStep("K230_parse_float", K230_parse_float(parse_data, parse_index, beyond))

DoParseString ==
    /\ parse_index \in DOMAIN parse_data
    /\ \E nul_at \in ParseLen..(ParseLen + MaxBeyond) :
          ParseStep("K230_parse_string", K230_parse_string(parse_data, parse_index, nul_at))

NextParse ==
    \/ HandlerEntry
    \/ DoParseByte
    \/ DoParseInt
    \/ DoParseFloat
    \/ DoParseString

SpecParse == Init /\ [][NextParse]_vars

\* C28: each accessor advances the cursor by exactly the width of its field and
\* never modifies the buffer: K230_parse_byte by 1, K230_parse_int and
\* K230_parse_float by 4, K230_parse_string by the string's length + 1, past
\* the zero terminator; each call reads at the cursor the previous call left,
\* so consecutive calls decode consecutive fields that do not overlap; and
\* K230_parse_string returns a view that starts at the cursor on entry and
\* holds the bytes before the first zero byte.
C28_CursorAdvance ==
    [][ ( fn_call'.f \in Accessors /\ vars' # vars ) =>
          LET f      == fn_call'.f
              entry  == fn_call'.in[1]
              zeros  == { k \in DOMAIN parse_data : k >= parse_index /\ parse_data[k] = 0 }
          IN  /\ parse_data' = parse_data
              /\ entry = parse_index
              /\ f = "K230_parse_byte" => parse_index' = parse_index + 1
              /\ f \in {"K230_parse_int", "K230_parse_float"}
                    => parse_index' = parse_index + 4
              /\ (f = "K230_parse_string" /\ zeros # {}) =>
                    /\ fn_call'.out.start = parse_index
                    /\ parse_index + fn_call'.out.length \in zeros
                    /\ \A k \in parse_index..(parse_index + fn_call'.out.length - 1) :
                          parse_data[k] # 0
                    /\ parse_index' = parse_index + fn_call'.out.length + 1
      ]_vars

\* a string of two bytes and its terminator decoded after a one-byte field: the
\* view starts at cell 1 and the cursor stands at cell 4
C28_Witness ==
    /\ fn_call.f = "K230_parse_string"
    /\ fn_call.in = << 1 >>
    /\ fn_call.out = [start |-> 1, length |-> 2]
    /\ parse_data[3] = 0
    /\ parse_index = 4

\* C29: for every four bytes b0, b1, b2, b3 at the cursor K230_parse_int
\* returns the 32-bit two's-complement signed value of the little-endian word
\* b0 + 256*b1 + 65536*b2 + 16777216*b3: the word itself when b3 < 0x80 and
\* the word minus 2^32, a negative number, when b3 >= 0x80.
C29_LittleEndianSigned ==
    (fn_call.f = "K230_parse_int" /\ fn_call.in[1] + 3 \in DOMAIN parse_data) =>
        LET i  == fn_call.in[1]
            b0 == parse_data[i]
            b1 == parse_data[i + 1]
            b2 == parse_data[i + 2]
            b3 == parse_data[i + 3]
        IN  /\ fn_call.out = b0 + 256 * b1 + 65536 * b2
                             + 16777216 * (IF b3 >= 128 THEN b3 - 256 ELSE b3)
            /\ b3 >= 128 <=> fn_call.out < 0

\* the bytes FF FF FF FF decoded as -1
C29_Witness ==
    /\ fn_call.f = "K230_parse_int"
    /\ fn_call.in[1] + 3 \in DOMAIN parse_data
    /\ \A k \in 0..3 : parse_data[fn_call.in[1] + k] = 255
    /\ fn_call.out = -1


(***************************************************************************)
(* K230_cmd with a peer that closes every segment and blocking reads that  *)
(* return                                                                  *)
(***************************************************************************)
\* the byte a peer that is closing the segment sends next: the terminator
\* 0x01 0xFE 0xFF, continued from what it has already sent of it
ClosingByte(temp, last) ==
    IF temp = END2 /\ last = END1 THEN END3
    ELSE IF temp = END1 THEN END2
    ELSE END1

\* the inner loop with a peer that closes the segment: within the first
\* MaxSegLen bytes it may still send the payload byte 0
K230CmdBodyClosing ==
    /\ xpc = "cmd_body"
    /\ \E b \in {ClosingByte(xtemp, xlast)} \cup (IF xi < MaxSegLen THEN {0} ELSE {}) :
          K230CmdStore(b)
    /\ UNCHANGED << gimbalVars, parseVars >>

NextCmdClosing ==
    \/ K230CmdStart
    \/ K230CmdAck
    \/ K230CmdFirst
    \/ K230CmdBodyClosing
    \/ K230CmdHandle

\* every blocking read returns (K230CmdAck, K230CmdFirst,
\* K230CmdBodyClosing) and the handler returns (K230CmdHandle); of a handler
\* that could go on for ever only the runs in which it returns 0 are kept
FairSpecCmd ==
    /\ Init /\ [][NextCmdClosing]_vars
    /\ WF_vars(K230CmdAck)
    /\ WF_vars(K230CmdFirst)
    /\ WF_vars(K230CmdBodyClosing)
    /\ WF_vars(K230CmdHandle)
    /\ SF_vars(K230CmdHandle /\ xpc' = "idle")

\* C31: if every blocking read eventually returns, the peer terminates every
\* segment with 0x01 0xFE 0xFF and the handler eventually returns zero, then
\* K230_cmd eventually transmits STOP_CMD and returns; and the exchange loop
\* is left only from a handler invocation that returned zero.
C31_CmdTerminates ==
    /\ ( (xcall = "cmd" /\ xpc # "idle")
           ~> (xcall = "cmd" /\ xpc = "idle" /\ xlog[Len(xlog)] = << "tx", 28 >>) )
    /\ [][ (xcall = "cmd" /\ xpc # "idle" /\ xpc' = "idle") =>
              /\ xpc = "cmd_handle"
              /\ Len(xlog') = Len(xlog) + 2
              /\ xlog'[Len(xlog') - 1] = << "handler", 0 >>
              /\ xlog'[Len(xlog')] = << "tx", 28 >> ]_vars
    /\ [](xcall = "cmd" /\ xpc # "idle"
             => \A k \in 1..Len(xlog) :
                   xlog[k] # << "handler", 0 >> /\ (k > 1 => xlog[k] # << "tx", 28 >>))

\* a call that returned after two segments, one of them with payload bytes
\* before the terminator
C31_Witness ==
    /\ xcall = "cmd" /\ xpc = "idle"
    /\ xhandled = 2
    /\ xreads > 10
    /\ xlog[Len(xlog)] = << "tx", 28 >>


(***************************************************************************)
(* Claims about the two axes' controllers (specification SpecUpdate)       *)
(***************************************************************************)
\* C32: PID state is per axis: each Update_Servo_Position(x, y) call applies
\* PID_Calculate exactly once to pid_x, with target 320 and current x, and
\* exactly once to pid_y, with target 240 and current y; the state of pid_x
\* and the duty of axis 1 after the call are determined by pid_x before the
\* call and x alone, those of pid_y and axis 2 by pid_y before the call and y
\* alone.
C32_PerAxisPID ==
    [][ ( fn_call'.f = "Update_Servo_Position" /\ vars' # vars ) =>
          LET x  == fn_call'.in[1]
              y  == fn_call'.in[2]
              rx == PID_Calculate(pid_x, 320, x)
              ry == PID_Calculate(pid_y, 240, y)
          IN  /\ pid_x' = rx.pid
              /\ pid_y' = ry.pid
              /\ cc0' = Angle_To_PWM(AffineAngle(x, 640, -40320, 40320) + rx.ret,
                                     7200, 136800)
              /\ cc1' = Angle_To_PWM(AffineAngle(y, 480, -13200, 13200) + ry.ret,
                                     10800, 205200)
      ]_vars

\* after a call the two controllers hold different non-zero integrals
C32_Witness ==
    /\ fn_call.f = "Update_Servo_Position"
    /\ pid_x.integral # 0 /\ pid_y.integral # 0
    /\ pid_x.integral # pid_y.integral
    /\ pid_x.Ki # 0


(***************************************************************************)
(* K230_cmd with segments of any length that the peer closes               *)
(***************************************************************************)
NextCmdLong ==
    \/ K230CmdStart
    \/ K230CmdAck
    \/ K230CmdFirst
    \/ K230CmdBodyLong
    \/ K230CmdBodyClosing
    \/ K230CmdHandle

SpecCmdLong == Init /\ [][NextCmdLong]_vars

\* C33: when K230_cmd invokes the handler for a segment whose payload has n
\* bytes, the buffer holds from index 0 exactly those n payload bytes in
\* arrival order followed by the terminator bytes 0x01 and 0xFE; n + 2 bytes
\* were stored, so neither the byte read and discarded at the start of the
\* segment nor the final terminator byte 0xFF is in the buffer.
C33_BufferAtHandler ==
    (xcall = "cmd" /\ xpc = "cmd_handle") =>
        LET n == Len(xseg) - 3
        IN  /\ n >= 0
            /\ xi = n + 2
            /\ \A k \in 0..(n + 1) : k \in DOMAIN xdata /\ xdata[k] = xseg[k + 1]
            /\ xdata[n] = 1 /\ xdata[n + 1] = 254
            /\ DOMAIN xdata \subseteq 0..127


(***************************************************************************)
(* Claims about the two axes' duties (specification SpecServo)             *)
(***************************************************************************)
\* C34: Set_Servo_Angle(n, angle) affects only the addressed axis: for n = 1
\* the hardware duty and the Servo_Target value of axis 2 are unchanged, for
\* n = 2 those of axis 1, and for any n outside {1, 2} no hardware duty is
\* written and neither Servo_Target value changes.
C34_OnlyAddressedAxis ==
    [][ ( fn_call'.f = "Set_Servo_Angle" /\ vars' # vars ) =>
          LET n == hw_log'[1].ch
          IN  /\ hw_log'[1].ev = "call"
              /\ n = 1 => (cc1' = cc1 /\ Servo_Target2' = Servo_Target2)
              /\ n = 2 => (cc0' = cc0 /\ Servo_Target1' = Servo_Target1)
              /\ n \notin {1, 2} =>
                    /\ \A i \in 1..Len(hw_log') : hw_log'[i].ev # "write"
                    /\ cc0' = cc0 /\ cc1' = cc1
                    /\ Servo_Target1' = Servo_Target1
                    /\ Servo_Target2' = Servo_Target2
      ]_vars


\* C35: after any sequence of Servo_Init, Set_Servo_Angle and
\* Update_Servo_Position calls, the recorded duty of each axis (Servo_Target1,
\* Servo_Target2) equals the duty most recently written to that axis's compare
\* register.  Every duty written is at least 24, so a register that holds a
\* non-zero value has been written.
C35_TargetIsLastWrite ==
    /\ cc0 # 0 => Servo_Target1 = cc0
    /\ cc1 # 0 => Servo_Target2 = cc1


(***************************************************************************)
(* gimbal_controller: the whole angle interface, gimbal_adjust and         *)
(* gimbal_reset included                                                   *)
(***************************************************************************)
\* increments handed to gimbal_adjust
GimbalPanDeltas  == { -135 * SCALE, -45 * SCALE, 0, 45 * SCALE, 135 * SCALE }
GimbalTiltDeltas == { -45 * SCALE, -15 * SCALE, 0, 15 * SCALE, 45 * SCALE }

\* gimbal_adjust that stores the sums without the range tests
gimbal_adjust_Unchecked(ctrl, pan_delta, tilt_delta) ==
    IF ~ctrl.initialized
      THEN [ctrl |-> ctrl, ret |-> FALSE]
      ELSE [ctrl |-> [ctrl EXCEPT !.pan_angle = ctrl.pan_angle + pan_delta,
                                  !.tilt_angle = ctrl.tilt_angle + tilt_delta],
            ret |-> TRUE]

\* gimbal_adjust that moves each axis whose sum is in range
gimbal_adjust_PerAxis(ctrl, pan_delta, tilt_delta) ==
    LET new_pan  == ctrl.pan_angle + pan_delta
        new_tilt == ctrl.tilt_angle + tilt_delta
        pan_ok   == new_pan >= PAN_MIN_ANGLE /\ new_pan <= PAN_MAX_ANGLE
        tilt_ok  == new_tilt >= TILT_MIN_ANGLE /\ new_tilt <= TILT_MAX_ANGLE
    IN  IF ~ctrl.initialized
          THEN [ctrl |-> ctrl, ret |-> FALSE]
          ELSE [ctrl |-> [ctrl EXCEPT
                            !.pan_angle = IF pan_ok THEN new_pan ELSE ctrl.pan_angle,
                            !.tilt_angle = IF tilt_ok THEN new_tilt ELSE ctrl.tilt_angle],
                ret |-> pan_ok /\ tilt_ok]

\* bool gimbal_adjust(float pan_delta, float tilt_delta)
gimbal_adjust(ctrl, pan_delta, tilt_delta) ==
    LET new_pan  == ctrl.pan_angle + pan_delta
        new_tilt == ctrl.tilt_angle + tilt_delta
    IN  gimbal_set_angle(ctrl, new_pan, new_tilt)

\* bool gimbal_reset(void)
gimbal_reset(ctrl) == gimbal_set_angle(ctrl, 0, 0)

GimbalAdjust ==
    /\ \E dp \in GimbalPanDeltas, dt \in GimbalTiltDeltas :
          LET r == gimbal_adjust(gimbal_ctrl, dp, dt)
          IN  /\ gimbal_ctrl' = r.ctrl
              /\ fn_call' = [f |-> "gimbal_adjust", in |-> << dp, dt >>, out |-> r.ret]
    /\ gimbal_seq' = 1 - gimbal_seq
    /\ UNCHANGED << uartVars, srcVars, mainVars, servoVars, pidVars, xchgVars >>
    /\ UNCHANGED parseVars

GimbalReset ==
    /\ LET r == gimbal_reset(gimbal_ctrl)
       IN  /\ gimbal_ctrl' = r.ctrl
           /\ fn_call' = [f |-> "gimbal_reset", in |-> << >>, out |-> r.ret]
    /\ gimbal_seq' = 1 - gimbal_seq
    /\ UNCHANGED << uartVars, srcVars, mainVars, servoVars, pidVars, xchgVars >>
    /\ UNCHANGED parseVars

NextGimbalApi ==
    \/ GimbalInit
    \/ GimbalDeinit
    \/ GimbalSetAngle
    \/ GimbalGetAngle
    \/ GimbalAdjust
    \/ GimbalReset

SpecGimbalApi == Init /\ [][NextGimbalApi]_vars

\* C36: in every state reachable by any sequence of gimbal_init,
\* gimbal_set_angle, gimbal_adjust, gimbal_reset and gimbal_deinit calls the
\* stored pan angle lies in [-90, 90] and the stored tilt angle in [-30, 30].
C36_StoredAnglesInRange ==
    /\ -90 * SCALE <= gimbal_ctrl.pan_angle /\ gimbal_ctrl.pan_angle <= 90 * SCALE
    /\ -30 * SCALE <= gimbal_ctrl.tilt_angle /\ gimbal_ctrl.tilt_angle <= 30 * SCALE

\* gimbal_adjust(45, 15) was rejected on a controller standing at both upper
\* bounds (90, 30): both sums would leave the range and the stored pair is
\* still (90, 30)
C36_Witness ==
    /\ fn_call.f = "gimbal_adjust"
    /\ fn_call.in = << 45 * SCALE, 15 * SCALE >>
    /\ fn_call.out = FALSE
    /\ gimbal_ctrl.initialized
    /\ gimbal_ctrl.pan_angle = 90 * SCALE
    /\ gimbal_ctrl.tilt_angle = 30 * SCALE


\* C37: gimbal lifecycle: before the first gimbal_init and after every
\* gimbal_deinit, gimbal_set_angle, gimbal_adjust and gimbal_reset return false
\* and change no stored angle; gimbal_init always returns true and sets both
\* angles to 0; gimbal_deinit keeps the stored angles; the stored pair changes
\* only in gimbal_init and in an accepted call, so gimbal_get_angle, which
\* returns the stored pair whether or not the controller is initialised,
\* returns the last accepted pair; on an initialised controller gimbal_reset
\* always succeeds and sets (0, 0).
C37_Lifecycle ==
    [][ gimbal_seq' # gimbal_seq =>
          LET f       == fn_call'.f
              same    == /\ gimbal_ctrl'.pan_angle = gimbal_ctrl.pan_angle
                         /\ gimbal_ctrl'.tilt_angle = gimbal_ctrl.tilt_angle
              setters == {"gimbal_set_angle", "gimbal_adjust", "gimbal_reset"}
          IN  /\ (f \in setters /\ ~gimbal_ctrl.initialized)
                    => (fn_call'.out = FALSE /\ same /\ ~gimbal_ctrl'.initialized)
              /\ f = "gimbal_init"
                    => /\ fn_call'.out = TRUE
                       /\ gimbal_ctrl'.initialized
                       /\ gimbal_ctrl'.pan_angle = 0 /\ gimbal_ctrl'.tilt_angle = 0
              /\ f = "gimbal_deinit" => (same /\ ~gimbal_ctrl'.initialized)
              /\ f = "gimbal_get_angle"
                    => /\ same
                       /\ fn_call'.in = << FALSE, FALSE >>
                             => fn_call'.out =
                                  << [written |-> TRUE, val |-> gimbal_ctrl.pan_angle],
                                     [written |-> TRUE, val |-> gimbal_ctrl.tilt_angle] >>
              /\ ~same => (f = "gimbal_init" \/ (f \in setters /\ fn_call'.out = TRUE))
              /\ (f = "gimbal_reset" /\ gimbal_ctrl.initialized)
                    => /\ fn_call'.out = TRUE
                       /\ gimbal_ctrl'.pan_angle = 0 /\ gimbal_ctrl'.tilt_angle = 0
      ]_vars

\* after gimbal_deinit, gimbal_get_angle has returned the pair (45, 15) that
\* was accepted before
C37_Witness ==
    /\ fn_call.f = "gimbal_get_angle"
    /\ ~gimbal_ctrl.initialized
    /\ fn_call.out = << [written |-> TRUE, val |-> 45 * SCALE],
                        [written |-> TRUE, val |-> 15 * SCALE] >>

\* C38: gimbal_adjust(dp, dt) is all-or-nothing: it returns true exactly when
\* the controller is initialised and both pan + dp is in [-90, 90] and
\* tilt + dt is in [-30, 30], and then both stored angles become the sums;
\* otherwise it returns false and neither angle changes, even when only one
\* axis would leave its range.
C38_AdjustAllOrNothing ==
    [][ ( gimbal_seq' # gimbal_seq /\ fn_call'.f = "gimbal_adjust" ) =>
          LET np == gimbal_ctrl.pan_angle + fn_call'.in[1]
              nt == gimbal_ctrl.tilt_angle + fn_call'.in[2]
              ok == /\ gimbal_ctrl.initialized
                    /\ -90 * SCALE <= np /\ np <= 90 * SCALE
                    /\ -30 * SCALE <= nt /\ nt <= 30 * SCALE
          IN  /\ fn_call'.out = ok
              /\ ok => (gimbal_ctrl'.pan_angle = np /\ gimbal_ctrl'.tilt_angle = nt)
              /\ ~ok => /\ gimbal_ctrl'.pan_angle = gimbal_ctrl.pan_angle
                        /\ gimbal_ctrl'.tilt_angle = gimbal_ctrl.tilt_angle
      ]_vars

\* gimbal_adjust(45, 15) was rejected on a controller standing at (90, 0): only
\* the pan sum leaves its range, and the tilt angle was not moved either
C38_Witness ==
    /\ fn_call.f = "gimbal_adjust"
    /\ fn_call.in = << 45 * SCALE, 15 * SCALE >>
    /\ fn_call.out = FALSE
    /\ gimbal_ctrl.initialized
    /\ gimbal_ctrl.pan_angle = 90 * SCALE
    /\ gimbal_ctrl.tilt_angle = 0


(***************************************************************************)
(* gimbal_controller: angle_to_pwm and pwm_to_angle.  Their arithmetic is  *)
(* IEEE-754 single precision (float), round to nearest, ties to even.  A   *)
(* float is held as [m, e], the number m * 2^e with 2^23 <= |m| < 2^24, or *)
(* [0, 0]; every float of these two functions lies below 2^24 in magnitude *)
(* and is 0 or at least 2^-7, and the second operand of every operation is *)
(* a whole number.                                                         *)
(***************************************************************************)
\* number of binary digits of n >= 0
BitLen(n) ==
    IF n = 0 THEN 0
    ELSE CHOOSE k \in 1..31 : 2^(k - 1) <= n /\ (k = 31 \/ n < 2^k)

\* q with its k low digits dropped, rounded to nearest, ties to even; sticky:
\* the exact number has non-zero digits below those of q
RoundBits(q, k, sticky) ==
    IF k = 0 THEN q
    ELSE LET mant == q \div 2^k
             rem  == q % 2^k
             half == 2^(k - 1)
         IN  IF rem > half \/ (rem = half /\ (sticky \/ mant % 2 = 1))
               THEN mant + 1 ELSE mant

\* the float sign * mag * 2^e, for 0 <= mag <= 2^24
F32(sign, mag, e) ==
    IF mag = 0 THEN [m |-> 0, e |-> 0]
    ELSE LET sh == 24 - BitLen(mag)
         IN  IF sh >= 0 THEN [m |-> sign * mag * 2^sh, e |-> e - sh]
                        ELSE [m |-> sign * (mag \div 2), e |-> e + 1]

F32Abs(x) == IF x.m < 0 THEN -x.m ELSE x.m

\* (float)n for a whole number n
F32FromInt(n) == F32(IF n < 0 THEN -1 ELSE 1, IF n < 0 THEN -n ELSE n, 0)

\* x * c in float, c a whole number in 1..4095
F32MulInt(x, c) ==
    IF x.m = 0 THEN x
    ELSE LET a  == F32Abs(x) \div 4096
             b  == F32Abs(x) % 4096
             lo == (b * c) % 4096
             hi == a * c + (b * c) \div 4096
             \* the exact product is (hi * 4096 + lo) * 2^x.e
             k  == BitLen(hi) - 12
             q  == hi * 2^(12 - k) + lo \div 2^k
             up == LET rem  == lo % 2^k
                       half == IF k = 0 THEN 1 ELSE 2^(k - 1)
                   IN  k > 0 /\ (rem > half \/ (rem = half /\ q % 2 = 1))
         IN  F32(IF x.m < 0 THEN -1 ELSE 1, IF up THEN q + 1 ELSE q, x.e + k)

\* x / c in float, c a whole number in 33..4095
F32DivInt(x, c) ==
    IF x.m = 0 THEN x
    ELSE LET q1 == F32Abs(x) \div c
             r1 == F32Abs(x) % c
             q2 == (r1 * 4096) \div c
             r2 == (r1 * 4096) % c
             \* the exact quotient is (q + r2 / c) * 2^(x.e - 12)
             q  == q1 * 4096 + q2
             k  == BitLen(q) - 24
         IN  F32(IF x.m < 0 THEN -1 ELSE 1, RoundBits(q, k, r2 # 0), x.e - 12 + k)

\* x as whole part and fraction: x = whole + frac / 2^(-x.e), 0 <= frac < 2^(-x.e)
F32Split(x) ==
    LET sc == 2^(-x.e)
        w  == F32Abs(x) \div sc
        f  == F32Abs(x) % sc
    IN  IF x.m >= 0 THEN [whole |-> w, frac |-> f]
        ELSE IF f = 0 THEN [whole |-> -w, frac |-> 0]
        ELSE [whole |-> -w - 1, frac |-> sc - f]

\* x + c in float, c a whole number
F32AddInt(x, c) ==
    IF x.m = 0 THEN F32FromInt(c)
    ELSE LET ee   == -x.e
             sc   == 2^ee
             p    == F32Split(x)
             t    == p.whole + c
             \* the exact sum is t + p.frac / sc; its magnitude is i + f / sc
             sign == IF t < 0 THEN -1 ELSE 1
             i    == IF t >= 0 THEN t ELSE IF p.frac = 0 THEN -t ELSE -t - 1
             f    == IF t >= 0 \/ p.frac = 0 THEN p.frac ELSE sc - p.frac
             fb   == 24 - BitLen(i)
         IN  IF i > 0
               THEN IF ee <= fb
                      THEN F32(sign, i * sc + f, -ee)
                      ELSE F32(sign, i * 2^fb + RoundBits(f, ee - fb, FALSE), -fb)
               ELSE IF BitLen(f) <= 24
                      THEN F32(sign, f, -ee)
                      ELSE F32(sign, RoundBits(f, BitLen(f) - 24, FALSE),
                               -ee + BitLen(f) - 24)


\* float pwm_to_angle(uint16_t pwm, bool is_pan)
pwm_to_angle(pwm, is_pan) ==
    LET min_angle == (IF is_pan THEN PAN_MIN_ANGLE ELSE TILT_MIN_ANGLE) \div SCALE
        max_angle == (IF is_pan THEN PAN_MAX_ANGLE ELSE TILT_MAX_ANGLE) \div SCALE
        p1 == IF pwm < 500 THEN 500 ELSE pwm
        p2 == IF p1 > 2500 THEN 2500 ELSE p1
    IN  F32AddInt(F32MulInt(F32DivInt(F32FromInt(p2 - 500), 2000),
                            max_angle - min_angle),
                  min_angle)

\* uint16_t angle_to_pwm(float angle, bool is_pan)
angle_to_pwm(angle, is_pan) ==
    LET min_angle == (IF is_pan THEN PAN_MIN_ANGLE ELSE TILT_MIN_ANGLE) \div SCALE
        max_angle == (IF is_pan THEN PAN_MAX_ANGLE ELSE TILT_MAX_ANGLE) \div SCALE
        \* angle < min_angle, angle > max_angle
        a1 == IF F32Split(angle).whole < min_angle
                THEN F32FromInt(min_angle) ELSE angle
        s1 == F32Split(a1)
        a2 == IF s1.whole > max_angle \/ (s1.whole = max_angle /\ s1.frac > 0)
                THEN F32FromInt(max_angle) ELSE a1
        v  == F32AddInt(F32MulInt(F32DivInt(F32AddInt(a2, -min_angle),
                                            max_angle - min_angle),
                                  2000),
                        500)
        \* (uint16_t) of a float 0 <= v < 65536: the fraction is discarded
    IN  IF v.m = 0 THEN 0 ELSE F32Abs(v) \div 2^(-v.e)

\* Bound of the model: pwm values tried beyond each end of [500, 2500]
PwmMargin == 5

GimbalPwmToAngle ==
    /\ fn_call.f = "none"
    /\ \E pwm \in ((500 - PwmMargin)..(2500 + PwmMargin)) \cup {0, 65535},
             is_pan \in BOOLEAN :
          fn_call' = [f |-> "pwm_to_angle", in |-> << pwm, is_pan >>,
                      out |-> pwm_to_angle(pwm, is_pan)]
    /\ UNCHANGED << uartVars, srcVars, mainVars, servoVars, pidVars, xchgVars >>
    /\ UNCHANGED << gimbalVars, parseVars >>

\* angle_to_pwm applied to a whole angle (from = -1), or to the angle that the
\* pwm_to_angle call just made returned for the pwm value from, on the same axis
GimbalAngleToPwm ==
    /\ \/ /\ fn_call.f = "none"
          /\ \E a \in {-1000, -91, -90, -31, -30, 0, 30, 31, 90, 91, 1000},
                   is_pan \in BOOLEAN :
                fn_call' = [f |-> "angle_to_pwm", in |-> << F32FromInt(a), is_pan, -1 >>,
                            out |-> angle_to_pwm(F32FromInt(a), is_pan)]
       \/ /\ fn_call.f = "pwm_to_angle"
          /\ fn_call' = [f |-> "angle_to_pwm",
                         in |-> << fn_call.out, fn_call.in[2], fn_call.in[1] >>,
                         out |-> angle_to_pwm(fn_call.out, fn_call.in[2])]
    /\ UNCHANGED << uartVars, srcVars, mainVars, servoVars, pidVars, xchgVars >>
    /\ UNCHANGED << gimbalVars, parseVars >>

NextGimbalConv == GimbalPwmToAngle \/ GimbalAngleToPwm

SpecGimbalConv == Init /\ [][NextGimbalConv]_vars

\* C39: round trip of the gimbal conversions: for both axes and every pwm in
\* [500, 2500], angle_to_pwm(pwm_to_angle(pwm)) = pwm; pwm values below 500 or
\* above 2500 behave as 500 and 2500; angles outside the axis range behave as
\* the nearest bound; and angle_to_pwm always returns a value in [500, 2500],
\* 500 for the minimum angle and 2500 for the maximum angle.
C39_RoundTrip ==
    fn_call.f = "angle_to_pwm" =>
        LET is_pan == fn_call.in[2]
            from   == fn_call.in[3]
            whole  == F32Split(fn_call.in[1])
        IN  /\ 500 <= fn_call.out /\ fn_call.out <= 2500
            /\ (from >= 500 /\ from <= 2500) => fn_call.out = from
            /\ (from >= 0 /\ from < 500) => fn_call.out = 500
            /\ from > 2500 => fn_call.out = 2500
            /\ (from = -1 /\ whole.whole <= (IF is_pan THEN -90 ELSE -30))
                   => fn_call.out = 500
            /\ (from = -1 /\ whole.whole >= (IF is_pan THEN 90 ELSE 30))
                   => fn_call.out = 2500

====
